---- MODULE Spec2Model ----
(***************************************************************************)
(* Model of the scroll-system navigation store (store/navigation.store.ts) *)
(* together with the keyboard adapter and the ScrollContainer transition   *)
(* effect.  Indices are zero-based as in the source; the sequence `views`  *)
(* is one-based, so views[i + 1] is the source's views[i].                 *)
(*                                                                         *)
(* Floating point values (progress, globalProgress) are kept as exact      *)
(* fractions [num, den]; thresholds are compared by cross-multiplication.  *)
(***************************************************************************)
EXTENDS Integers, Sequences, FiniteSets, TLC

VARIABLES
    views,                    \* ScrollSystemState.views
    activeIndex,              \* ScrollSystemState.activeIndex
    activeId,                 \* ScrollSystemState.activeId ("null" for null)
    totalViews,               \* ScrollSystemState.totalViews
    isInitialized,            \* ScrollSystemState.isInitialized
    isTransitioning,          \* ScrollSystemState.isTransitioning
    isGlobalLocked,           \* ScrollSystemState.isGlobalLocked
    globalProgress,           \* ScrollSystemState.globalProgress
    infiniteScrollEnabled,    \* ScrollSystemState.infiniteScrollEnabled
    lastNavigationDirection,  \* ScrollSystemState.lastNavigationDirection
    lastNavigationTime,       \* module-level `let lastNavigationTime`
    now,                      \* the clock read by Date.now()
    handled,                  \* return value of the last call, if it was processIntention
    lastAccepted,             \* history: time of the last accepted navigation (0 = none/reset)
    prevIndexRef,             \* ScrollContainer: prevIndexRef.current
    transitionTimer,          \* ScrollContainer: the endTransition timeout is pending
    effectDeps,               \* ScrollContainer: dependency values of the last effect run
    onViewChange,             \* ScrollContainer prop: identity of the onViewChange callback
    reducedMotion,            \* ScrollContainer state: reducedMotion
    isDragging,               \* ScrollSystemState.isDragging
    dragEnabled,              \* useDragHandler: the touch listeners are attached
    touching,                 \* a finger is on the screen
    touchStartRef,            \* useDragHandler: touchStartRef.current is not null
    wasActiveRef,             \* useViewRegistration of each view: wasActiveRef.current
    wasTransitioningRef,      \* useViewRegistration of each view: wasTransitioningRef.current
    viewDeps,                 \* useViewRegistration of each view: [isActive, isTransitioning] of the last effect run
    fired,                    \* the callbacks the last effect run of each view called
    isAutoScrolling,          \* ScrollSystemState.isAutoScrolling
    isAutoScrollPaused,       \* ScrollSystemState.isAutoScrollPaused
    autoMounted,              \* useAutoScroll({enabled: true, pauseOnInteraction: true}) is mounted
    resumeTimeoutRef,         \* useAutoScroll: the resume timeout is pending
    intervalRef,              \* useAutoScroll: the advance interval is running
    interactionDeps,          \* useAutoScroll: [isDragging, isTransitioning] of the last interaction effect run
    intervalDeps,             \* useAutoScroll: dependency values of the last interval effect run
    scrollAccumulator,        \* useWheelHandler: scrollAccumulator.current
    lastScrollTime,           \* useWheelHandler: lastScrollTime.current
    lockRequested,            \* the application called lock() and has not called unlock() since
    nestedTouching,           \* NestedScrollView: a touch that started on it is in progress
    unlockTimers              \* NestedScrollView: pending setTimeout callbacks of handleTouchEnd

storeVars == <<views, activeIndex, activeId, totalViews, isInitialized,
               isTransitioning, isGlobalLocked, globalProgress,
               infiniteScrollEnabled, lastNavigationDirection>>

containerVars == <<prevIndexRef, transitionTimer, effectDeps, onViewChange, reducedMotion>>

\* the store's gesture flag and the state of the hooks around the store
hookVars == <<isDragging, dragEnabled, touching, touchStartRef,
              wasActiveRef, wasTransitioningRef, viewDeps, fired,
              isAutoScrolling, isAutoScrollPaused, autoMounted, resumeTimeoutRef,
              intervalRef, interactionDeps, intervalDeps,
              scrollAccumulator, lastScrollTime,
              lockRequested, nestedTouching, unlockTimers>>

\* the refs of useWheelHandler
wheelVars == <<scrollAccumulator, lastScrollTime>>

\* the application's lock request and the touch state of NestedScrollView
nestedVars == <<lockRequested, nestedTouching, unlockTimers>>

\* the store's auto-scroll flags and the refs of useAutoScroll
autoVars == <<isAutoScrolling, isAutoScrollPaused, autoMounted, resumeTimeoutRef,
              intervalRef, interactionDeps, intervalDeps>>

\* the refs of the mounted view components
lifecycleVars == <<wasActiveRef, wasTransitioningRef, viewDeps, fired>>

vars == <<views, activeIndex, activeId, totalViews, isInitialized,
          isTransitioning, isGlobalLocked, globalProgress,
          infiniteScrollEnabled, lastNavigationDirection,
          lastNavigationTime, now, handled, lastAccepted,
          prevIndexRef, transitionTimer, effectDeps, onViewChange, reducedMotion,
          isDragging, dragEnabled, touching, touchStartRef,
          wasActiveRef, wasTransitioningRef, viewDeps, fired,
          isAutoScrolling, isAutoScrollPaused, autoMounted, resumeTimeoutRef,
          intervalRef, interactionDeps, intervalDeps,
          scrollAccumulator, lastScrollTime,
          lockRequested, nestedTouching, unlockTimers>>

----------------------------------------------------------------------------
(* Program constants *)

NAVIGATION_COOLDOWN == 500

DEFAULT_TRANSITION_DURATION == 700

(* Bounds of the model *)

\* the clock advances in steps of TickStep up to MaxNow
TickStep == 250

MaxNow == 1000

\* the clock starts one cooldown after the epoch, so that the first
\* navigation is never inside a cooldown (Date.now() is far from 0)
StartNow == NAVIGATION_COOLDOWN

----------------------------------------------------------------------------
(* Input domains *)

NULL == "null"

ViewIds == {"a", "b", "c"}

\* scrollEndThreshold is held in hundredths (99 stands for 0.99)
Cfg(id, type, allowGoBack, thr) ==
    [id |-> id, type |-> type, allowGoBack |-> allowGoBack, scrollEndThreshold |-> thr,
     forceScrollLock |-> FALSE]

Configs ==
    { Cfg("a", "full", TRUE, 99),
      Cfg("b", "scroll-locked", TRUE, 50),
      Cfg("c", "controlled", FALSE, 99) }

\* the views of the specification that reports metrics and sets explicit locks
LockConfigs ==
    { Cfg("a", "full", TRUE, 99),
      Cfg("b", "scroll-locked", TRUE, 50) }

LockViewIds == {"a", "b"}

\* <ScrollLockedView id="f" forceScrollLock> and the same view with the prop off
ForcedConfig == [Cfg("f", "scroll-locked", TRUE, 99) EXCEPT !.forceScrollLock = TRUE]

UnforcedConfig == Cfg("f", "scroll-locked", TRUE, 99)

\* the views of the specification with a forceScrollLock view: it is mounted
\* with the prop on, after a full view or before it
ForceConfigs == { Cfg("a", "full", TRUE, 99), ForcedConfig }

ForceViewIds == {"a", "f"}

\* the views of the specification of the backward exit: a full view and a
\* controlled view mounted with allowGoBack off or on
BackConfigs ==
    { Cfg("a", "full", TRUE, 99),
      Cfg("c", "controlled", FALSE, 99),
      Cfg("c", "controlled", TRUE, 99) }

BackViewIds == {"a", "c"}

Met(sh, ch, st) == [scrollHeight |-> sh, clientHeight |-> ch, scrollTop |-> st]

ZeroMetrics == Met(0, 0, 0)

\* reported measurements: overflowing near the top, in the middle, at the
\* end, and content that fits
MetricsSet ==
    { Met(2000, 800, 100), Met(2000, 800, 600), Met(2000, 800, 1200), Met(800, 800, 0) }


\* overflowing at the top, overflowing and scrolled, content that fits
BackMetricsSet == { Met(2000, 800, 0), Met(2000, 800, 600), Met(800, 800, 0) }

\* reports around the 0.99 threshold (0.98995 and 0.99 are less than 0.0001
\* apart), an overflow of exactly one pixel, content scrolled a little, and
\* content that fits
EvalMetricsSet ==
    { Met(20800, 800, 19799), Met(20800, 800, 19800), Met(801, 800, 0),
      Met(2000, 800, 100), Met(800, 800, 0) }

\* the views of the specification of the evaluator: one view "v" mounted as
\* any of the four view types, next to a scroll-locked view
EvalConfigs ==
    { Cfg("v", "full", TRUE, 99),
      Cfg("v", "scroll-locked", TRUE, 99),
      Cfg("v", "controlled", TRUE, 99),
      Cfg("v", "nested", TRUE, 99),
      Cfg("b", "scroll-locked", TRUE, 50) }

EvalViewIds == {"v", "b"}

\* the views of the specification of plain navigation: three full views
FlowConfigs ==
    { Cfg("a", "full", TRUE, 99), Cfg("x", "full", TRUE, 99), Cfg("y", "full", TRUE, 99) }

FlowViewIds == {"a", "x", "y"}

\* reports one and two pixels below the top, at the end, content that fits,
\* and a long page two pixels below the top and at the top (progress 2/30000
\* and 0 are less than 0.0001 apart)
TopMetricsSet ==
    { Met(2000, 800, 1), Met(2000, 800, 2), Met(2000, 800, 1200), Met(800, 800, 0),
      Met(30800, 800, 2), Met(30800, 800, 0) }

Locks == {"locked", "unlocked", NULL}

IntentionTypes == {"navigate", "scroll"}

Directions == {"up", "down", "left"}

----------------------------------------------------------------------------
(* State machine evaluator *)

Rat(n, d) == [num |-> n, den |-> d]

\* p >= 0.99
AtLeast99(p) == 100 * p.num >= 99 * p.den

Abs(x) == IF x < 0 THEN -x ELSE x

\* Math.abs(p - q) < 0.0001, that is 10000 * |p.num*q.den - q.num*p.den| < p.den*q.den,
\* written with a division so that the products stay within 32 bits
WithinEpsilon(p, q) ==
    Abs(p.num * q.den - q.num * p.den) <= (p.den * q.den - 1) \div 10000

\* variant: the explicit lock is consulted only after capability and view type
evaluateCapabilityFirst(capability, progress, viewType, explicitLock) ==
    IF capability = "none" THEN "unlocked"
    ELSE IF viewType = "full" THEN "unlocked"
    ELSE IF viewType = "nested" THEN "unlocked"
    ELSE IF explicitLock # NULL THEN explicitLock
    ELSE IF AtLeast99(progress) THEN "unlocked"
    ELSE "locked"

evaluateStateMachine(capability, progress, viewType, explicitLock) ==
    IF explicitLock # NULL THEN explicitLock
    ELSE IF capability = "none" THEN "unlocked"
    ELSE IF viewType = "full" THEN "unlocked"
    ELSE IF viewType = "nested" THEN "unlocked"
    ELSE IF AtLeast99(progress) THEN "unlocked"
    ELSE "locked"

\* variant: an overflow of one pixel already counts as scrollable
calculateCapabilityStrict(metrics) ==
    IF metrics.scrollHeight - metrics.clientHeight <= 0 THEN "none" ELSE "internal"

calculateCapability(metrics) ==
    IF metrics.scrollHeight - metrics.clientHeight <= 1 THEN "none" ELSE "internal"

calculateProgress(metrics) ==
    LET maxScroll == metrics.scrollHeight - metrics.clientHeight
    IN  IF maxScroll <= 1 THEN Rat(1, 1)
        ELSE IF metrics.scrollTop <= 0 THEN Rat(0, 1)
        ELSE IF metrics.scrollTop >= maxScroll THEN Rat(1, 1)
        ELSE Rat(metrics.scrollTop, maxScroll)

----------------------------------------------------------------------------
(* Helpers over the registry *)

Min(a, b) == IF a < b THEN a ELSE b

Max(a, b) == IF a > b THEN a ELSE b

\* views.findIndex(v => v.id === id), zero-based, -1 when absent
findIndex(vs, id) ==
    IF \E i \in 1..Len(vs) : vs[i].id = id
    THEN (CHOOSE i \in 1..Len(vs) : vs[i].id = id /\ \A j \in 1..(i - 1) : vs[j].id # id) - 1
    ELSE -1

\* views[i] of the source is defined
HasView(vs, i) == i >= 0 /\ i < Len(vs)

\* views.filter(v => v.id !== id)
RECURSIVE filterOut(_, _)
filterOut(vs, id) ==
    IF vs = <<>> THEN <<>>
    ELSE IF Head(vs).id = id THEN filterOut(Tail(vs), id)
    ELSE <<Head(vs)>> \o filterOut(Tail(vs), id)

----------------------------------------------------------------------------
Init ==
    /\ views = <<>>
    /\ activeIndex = 0
    /\ activeId = NULL
    /\ totalViews = 0
    /\ isInitialized = FALSE
    /\ isTransitioning = FALSE
    /\ isGlobalLocked = FALSE
    /\ globalProgress = Rat(0, 1)
    /\ infiniteScrollEnabled = FALSE
    /\ lastNavigationDirection = NULL
    /\ lastNavigationTime = 0
    /\ now = StartNow
    /\ handled = "none"
    /\ lastAccepted = 0
    /\ prevIndexRef = 0
    /\ transitionTimer = FALSE
    /\ effectDeps = <<0, DEFAULT_TRANSITION_DURATION, 0>>
    /\ onViewChange = 0
    /\ reducedMotion = FALSE
    /\ isDragging = FALSE
    /\ dragEnabled = TRUE
    /\ touching = FALSE
    /\ touchStartRef = FALSE
    /\ wasActiveRef = [id \in LockViewIds |-> FALSE]
    /\ wasTransitioningRef = [id \in LockViewIds |-> FALSE]
    /\ viewDeps = [id \in LockViewIds |-> <<FALSE, FALSE>>]
    /\ fired = [id \in LockViewIds |-> {}]
    /\ isAutoScrolling = FALSE
    /\ isAutoScrollPaused = FALSE
    /\ autoMounted = FALSE
    /\ resumeTimeoutRef = FALSE
    /\ intervalRef = FALSE
    /\ interactionDeps = <<FALSE, FALSE>>
    /\ intervalDeps = <<FALSE, FALSE, 0, 0, FALSE>>
    /\ scrollAccumulator = 0
    /\ lastScrollTime = 0
    /\ lockRequested = FALSE
    /\ nestedTouching = FALSE
    /\ unlockTimers = 0

\* what every store call other than processIntention and goToView leaves alone
Frame ==
    /\ handled' = "none"
    /\ UNCHANGED <<lastNavigationTime, now, lastAccepted>>
    /\ UNCHANGED containerVars
    /\ UNCHANGED hookVars

----------------------------------------------------------------------------
(* Registry *)

\* variant: initialize marks the system initialized but keeps the active index
initializeKeepsIndex ==
    /\ IF Len(views) > 0
       THEN /\ isInitialized' = TRUE
            /\ activeId' = views[1].id
       ELSE UNCHANGED <<isInitialized, activeId>>
    /\ UNCHANGED <<views, activeIndex, totalViews, isTransitioning, isGlobalLocked,
                   globalProgress, infiniteScrollEnabled, lastNavigationDirection>>
    /\ Frame

\* variant: initialize marks the system initialized even with no view
initializeWithoutViews ==
    /\ isInitialized' = TRUE
    /\ activeIndex' = 0
    /\ activeId' = IF Len(views) > 0 THEN views[1].id ELSE NULL
    /\ UNCHANGED <<views, totalViews, isTransitioning, isGlobalLocked, globalProgress,
                   infiniteScrollEnabled, lastNavigationDirection>>
    /\ Frame

initialize ==
    /\ IF Len(views) > 0
       THEN /\ isInitialized' = TRUE
            /\ activeId' = views[1].id
            /\ activeIndex' = 0
       ELSE UNCHANGED <<isInitialized, activeId, activeIndex>>
    /\ UNCHANGED <<views, totalViews, isTransitioning, isGlobalLocked, globalProgress,
                   infiniteScrollEnabled, lastNavigationDirection>>
    /\ Frame

newViewState(config, newIndex) ==
    [ id |-> config.id,
      index |-> newIndex,
      type |-> config.type,
      isActive |-> (newIndex = 0),
      isPreloaded |-> (newIndex <= 1),
      capability |-> "none",
      navigation |-> "unlocked",
      explicitLock |-> NULL,
      progress |-> Rat(0, 1),
      metrics |-> ZeroMetrics,
      config |-> config ]

\* variant: a duplicate id refreshes the stored config of the existing view
registerViewRefreshing(config) ==
    /\ IF \E i \in 1..Len(views) : views[i].id = config.id
       THEN /\ views' = [i \in 1..Len(views) |->
                            IF views[i].id = config.id
                            THEN [views[i] EXCEPT !.config = config, !.type = config.type]
                            ELSE views[i]]
            /\ UNCHANGED <<totalViews, activeId>>
       ELSE LET newView == newViewState(config, Len(views))
                newViews == Append(views, newView)
            IN  /\ views' = newViews
                /\ totalViews' = Len(newViews)
                /\ activeId' = IF activeId # NULL THEN activeId ELSE newView.id
    /\ UNCHANGED <<activeIndex, isInitialized, isTransitioning, isGlobalLocked,
                   globalProgress, infiniteScrollEnabled, lastNavigationDirection>>
    /\ Frame

registerView(config) ==
    /\ IF \E i \in 1..Len(views) : views[i].id = config.id
       THEN UNCHANGED <<views, totalViews, activeId>>
       ELSE LET newView == newViewState(config, Len(views))
                newViews == Append(views, newView)
            IN  /\ views' = newViews
                /\ totalViews' = Len(newViews)
                /\ activeId' = IF activeId # NULL THEN activeId ELSE newView.id
    /\ UNCHANGED <<activeIndex, isInitialized, isTransitioning, isGlobalLocked,
                   globalProgress, infiniteScrollEnabled, lastNavigationDirection>>
    /\ Frame

\* variant: the index is kept non-negative but not capped by the new length
clampBelowOnly(index, newLength) == Max(0, index)

\* Math.max(0, Math.min(activeIndex, newLength - 1))
clampActiveIndex(index, newLength) == Max(0, Min(index, newLength - 1))

\* variant: the remaining views keep the index they were registered with
unregisterViewKeepingIndex(id) ==
    LET newViews == filterOut(views, id)
        newActiveIndex == Min(activeIndex, Len(newViews) - 1)
    IN  /\ views' = newViews
        /\ totalViews' = Len(newViews)
        /\ activeIndex' = clampActiveIndex(activeIndex, Len(newViews))
        /\ activeId' = IF HasView(newViews, newActiveIndex)
                       THEN newViews[newActiveIndex + 1].id ELSE NULL
        /\ UNCHANGED <<isInitialized, isTransitioning, isGlobalLocked, globalProgress,
                       infiniteScrollEnabled, lastNavigationDirection>>
        /\ Frame

\* variant: activeId is not recomputed after the removal
unregisterViewKeepingActiveId(id) ==
    LET filtered == filterOut(views, id)
        newViews == [i \in 1..Len(filtered) |-> [filtered[i] EXCEPT !.index = i - 1]]
    IN  /\ views' = newViews
        /\ totalViews' = Len(newViews)
        /\ activeIndex' = clampActiveIndex(activeIndex, Len(newViews))
        /\ UNCHANGED <<activeId, isInitialized, isTransitioning, isGlobalLocked,
                       globalProgress, infiniteScrollEnabled, lastNavigationDirection>>
        /\ Frame

unregisterView(id) ==
    LET filtered == filterOut(views, id)
        newViews == [i \in 1..Len(filtered) |-> [filtered[i] EXCEPT !.index = i - 1]]
        newActiveIndex == Min(activeIndex, Len(newViews) - 1)
    IN  /\ views' = newViews
        /\ totalViews' = Len(newViews)
        /\ activeIndex' = clampActiveIndex(activeIndex, Len(newViews))
        /\ activeId' = IF HasView(newViews, newActiveIndex)
                       THEN newViews[newActiveIndex + 1].id ELSE NULL
        /\ UNCHANGED <<isInitialized, isTransitioning, isGlobalLocked, globalProgress,
                       infiniteScrollEnabled, lastNavigationDirection>>
        /\ Frame

----------------------------------------------------------------------------
(* Metrics and explicit locks *)

\* (state.activeIndex + viewProgress) / state.totalViews
computeGlobalProgress(newViews, index, total) ==
    LET viewProgress == IF HasView(newViews, index)
                        THEN newViews[index + 1].progress ELSE Rat(0, 1)
    IN  Rat(index * viewProgress.den + viewProgress.num, viewProgress.den * total)

\* variant: there is no early return, every report builds a new state object
metricsNeverStored(view, metrics) == FALSE

\* updateViewMetrics: the report derives what the view already holds, and the
\* state object is returned as it is
metricsAlreadyStored(view, metrics) ==
    LET capability == calculateCapability(metrics)
        progress == calculateProgress(metrics)
        navigation == evaluateStateMachine(capability, progress,
                                           view.type, view.explicitLock)
    IN  /\ view.capability = capability
        /\ WithinEpsilon(view.progress, progress)
        /\ view.navigation = navigation

updateViewMetrics(id, metrics) ==
    LET viewIndex == findIndex(views, id)
    IN  /\ IF viewIndex = -1
           THEN UNCHANGED <<views, globalProgress>>
           ELSE LET view == views[viewIndex + 1]
                    capability == calculateCapability(metrics)
                    progress == calculateProgress(metrics)
                    navigation == evaluateStateMachine(capability, progress,
                                                       view.type, view.explicitLock)
                IN  IF metricsAlreadyStored(view, metrics)
                    THEN UNCHANGED <<views, globalProgress>>
                    ELSE LET newViews == [views EXCEPT ![viewIndex + 1] =
                                            [view EXCEPT !.metrics = metrics,
                                                         !.capability = capability,
                                                         !.progress = progress,
                                                         !.navigation = navigation]]
                         IN  /\ views' = newViews
                             /\ globalProgress' =
                                    computeGlobalProgress(newViews, activeIndex, totalViews)
        /\ UNCHANGED <<activeIndex, activeId, totalViews, isInitialized, isTransitioning,
                       isGlobalLocked, infiniteScrollEnabled, lastNavigationDirection>>
        /\ Frame

setViewExplicitLock(id, lock) ==
    LET index == findIndex(views, id)
    IN  /\ IF index = -1
           THEN UNCHANGED views
           ELSE LET view == views[index + 1]
                    navigation == evaluateStateMachine(view.capability, view.progress,
                                                       view.type, lock)
                IN  views' = [views EXCEPT ![index + 1] =
                                 [view EXCEPT !.explicitLock = lock,
                                              !.navigation = navigation]]
        /\ UNCHANGED <<activeIndex, activeId, totalViews, isInitialized, isTransitioning,
                       isGlobalLocked, globalProgress, infiniteScrollEnabled,
                       lastNavigationDirection>>
        /\ Frame

----------------------------------------------------------------------------
(* Selectors *)

selectCanNavigateNext ==
    IF isTransitioning \/ isGlobalLocked THEN FALSE
    ELSE IF ~HasView(views, activeIndex) THEN FALSE
    ELSE IF infiniteScrollEnabled THEN views[activeIndex + 1].navigation = "unlocked"
    ELSE views[activeIndex + 1].navigation = "unlocked" /\ activeIndex < totalViews - 1

selectCanNavigatePrevious ==
    IF isTransitioning \/ isGlobalLocked THEN FALSE
    ELSE IF ~HasView(views, activeIndex) THEN FALSE
    ELSE IF infiniteScrollEnabled THEN TRUE
    ELSE activeIndex > 0

----------------------------------------------------------------------------
(* Navigation *)

\* variant: the window of the other constants file (100 ms) is compared against
InCooldownShortWindow(t, last) == t - last < 100

\* now - lastNavigationTime < NAVIGATION_COOLDOWN
InCooldown(t, last) == t - last < NAVIGATION_COOLDOWN

\* goToView: the index a numeric argument resolves to after the infinite wrap
resolveTarget(index) ==
    LET wrappedLow == IF infiniteScrollEnabled /\ index < 0 THEN totalViews - 1 ELSE index
    IN  IF infiniteScrollEnabled /\ wrappedLow >= totalViews THEN 0 ELSE wrappedLow

\* goToView: the target passes the bounds check and differs from the active index
targetValid(targetIndex) ==
    /\ ~(targetIndex < 0 \/ targetIndex >= totalViews)
    /\ targetIndex # activeIndex

isAdjacent(idx, targetIndex) ==
    \/ Abs(idx - targetIndex) <= 1
    \/ /\ infiniteScrollEnabled
       /\ \/ (targetIndex = 0 /\ idx = totalViews - 1)
          \/ (targetIndex = totalViews - 1 /\ idx = 0)

\* the preload window of goToView, as a function of the state it is applied to
InPreloadWindow(idx, active, total, infinite) ==
    \/ idx = active
    \/ Abs(idx - active) <= 1
    \/ /\ infinite
       /\ \/ (active = 0 /\ idx = total - 1)
          \/ (active = total - 1 /\ idx = 0)

\* the body of goToView for a numeric argument, shared by every caller
goToViewBody(index) ==
    IF InCooldown(now, lastNavigationTime)
    THEN UNCHANGED <<storeVars, lastNavigationTime, lastAccepted>>
    ELSE /\ lastNavigationTime' = now
         /\ LET targetIndex == resolveTarget(index)
            IN  IF ~targetValid(targetIndex)
                THEN UNCHANGED <<storeVars, lastAccepted>>
                ELSE LET newViews == [i \in 1..Len(views) |->
                                        [views[i] EXCEPT
                                           !.isActive = (i - 1 = targetIndex),
                                           !.isPreloaded = (isAdjacent(i - 1, targetIndex)
                                                            \/ i - 1 = targetIndex)]]
                     IN  /\ views' = newViews
                         /\ isTransitioning' = TRUE
                         /\ activeIndex' = targetIndex
                         /\ activeId' = IF HasView(newViews, targetIndex)
                                        THEN newViews[targetIndex + 1].id ELSE NULL
                         /\ lastNavigationDirection' =
                                IF targetIndex > activeIndex THEN "down" ELSE "up"
                         /\ lastAccepted' = now
                         /\ UNCHANGED <<totalViews, isInitialized, isGlobalLocked,
                                        globalProgress, infiniteScrollEnabled>>

goToView(index) ==
    /\ goToViewBody(index)
    /\ handled' = "none"
    /\ UNCHANGED <<now>>
    /\ UNCHANGED containerVars
    /\ UNCHANGED hookVars

\* goToView called with a string: the id is looked up before the cooldown test
\* is applied to the resulting index (-1 when no view has that id)
goToViewById(id) == goToView(findIndex(views, id))

goToNext ==
    LET nextIndex == IF infiniteScrollEnabled /\ activeIndex >= totalViews - 1
                     THEN 0 ELSE activeIndex + 1
    IN  goToView(nextIndex)

goToPrevious ==
    LET prevIndex == IF infiniteScrollEnabled /\ activeIndex <= 0
                     THEN totalViews - 1 ELSE activeIndex - 1
    IN  goToView(prevIndex)

\* processIntention: the view index the intention is sent to, or NoTarget
\* when the intention is refused before goToView is called
NoTarget == 0 - 9

\* variant: the down branch does not consult the active view's navigation
downTargetIgnoringLock(activeView) ==
    IF activeIndex >= totalViews - 1
    THEN (IF infiniteScrollEnabled THEN 0 ELSE NoTarget)
    ELSE activeIndex + 1

\* variant: the end of the list is tested one position too late
downTargetPastEnd(activeView) ==
    IF activeView.navigation = "locked" THEN NoTarget
    ELSE IF activeIndex >= totalViews
         THEN (IF infiniteScrollEnabled THEN 0 ELSE NoTarget)
         ELSE activeIndex + 1

\* variant: the last view never wraps to the first
downTargetNoWrap(activeView) ==
    IF activeView.navigation = "locked" THEN NoTarget
    ELSE IF activeIndex >= totalViews - 1 THEN NoTarget
         ELSE activeIndex + 1

\* direction === "down"
downTarget(activeView) ==
    IF activeView.navigation = "locked" THEN NoTarget
    ELSE IF activeIndex >= totalViews - 1
         THEN (IF infiniteScrollEnabled THEN 0 ELSE NoTarget)
         ELSE activeIndex + 1

\* variant: the explicit lock blocks the way back for every view type
upTargetLockForAll(activeView) ==
    LET isAtTop == activeView.metrics.scrollTop <= 1
    IN  IF activeView.capability = "internal" /\ ~isAtTop THEN NoTarget
        ELSE IF activeView.type = "controlled" /\ activeView.config.allowGoBack = FALSE
             THEN NoTarget
        ELSE IF activeView.explicitLock = "locked"
             THEN NoTarget
        ELSE IF activeIndex <= 0
             THEN (IF infiniteScrollEnabled THEN totalViews - 1 ELSE NoTarget)
             ELSE activeIndex - 1

\* variant: the infinite wrap at the first view is decided before allowGoBack
upTargetWrapFirst(activeView) ==
    LET isAtTop == activeView.metrics.scrollTop <= 1
    IN  IF activeView.capability = "internal" /\ ~isAtTop THEN NoTarget
        ELSE IF activeIndex <= 0 /\ infiniteScrollEnabled THEN totalViews - 1
        ELSE IF activeView.type = "controlled" /\ activeView.config.allowGoBack = FALSE
             THEN NoTarget
        ELSE IF activeView.type # "controlled" /\ activeView.explicitLock = "locked"
             THEN NoTarget
        ELSE IF activeIndex <= 0 THEN NoTarget
             ELSE activeIndex - 1

\* variant: only the view types that lock on scroll are held at their top
upTargetTopForLockingTypes(activeView) ==
    LET isAtTop == activeView.metrics.scrollTop <= 1
    IN  IF /\ activeView.capability = "internal" /\ ~isAtTop
           /\ activeView.type \in {"scroll-locked", "controlled"}
        THEN NoTarget
        ELSE IF activeView.type = "controlled" /\ activeView.config.allowGoBack = FALSE
             THEN NoTarget
        ELSE IF activeView.type # "controlled" /\ activeView.explicitLock = "locked"
             THEN NoTarget
        ELSE IF activeIndex <= 0
             THEN (IF infiniteScrollEnabled THEN totalViews - 1 ELSE NoTarget)
             ELSE activeIndex - 1

\* direction === "up"
upTarget(activeView) ==
    LET isAtTop == activeView.metrics.scrollTop <= 1
    IN  IF activeView.capability = "internal" /\ ~isAtTop THEN NoTarget
        ELSE IF activeView.type = "controlled" /\ activeView.config.allowGoBack = FALSE
             THEN NoTarget
        ELSE IF activeView.type # "controlled" /\ activeView.explicitLock = "locked"
             THEN NoTarget
        ELSE IF activeIndex <= 0
             THEN (IF infiniteScrollEnabled THEN totalViews - 1 ELSE NoTarget)
             ELSE activeIndex - 1

\* variant: processIntention does not test isGlobalLocked
intentionTargetIgnoringGlobalLock(type, direction) ==
    IF isTransitioning THEN NoTarget
    ELSE IF ~HasView(views, activeIndex) THEN NoTarget
    ELSE IF type # "navigate" THEN NoTarget
    ELSE IF direction = "down" THEN downTarget(views[activeIndex + 1])
    ELSE IF direction = "up" THEN upTarget(views[activeIndex + 1])
    ELSE NoTarget

\* variant: processIntention does not test isTransitioning
intentionTargetIgnoringTransition(type, direction) ==
    IF isGlobalLocked THEN NoTarget
    ELSE IF ~HasView(views, activeIndex) THEN NoTarget
    ELSE IF type # "navigate" THEN NoTarget
    ELSE IF direction = "down" THEN downTarget(views[activeIndex + 1])
    ELSE IF direction = "up" THEN upTarget(views[activeIndex + 1])
    ELSE NoTarget

\* variant: processIntention also refuses intentions while isDragging is set
intentionTargetGatedByDragging(type, direction) ==
    IF isTransitioning \/ isGlobalLocked \/ isDragging THEN NoTarget
    ELSE IF ~HasView(views, activeIndex) THEN NoTarget
    ELSE IF type # "navigate" THEN NoTarget
    ELSE IF direction = "down" THEN downTarget(views[activeIndex + 1])
    ELSE IF direction = "up" THEN upTarget(views[activeIndex + 1])
    ELSE NoTarget

intentionTarget(type, direction) ==
    IF isTransitioning \/ isGlobalLocked THEN NoTarget
    ELSE IF ~HasView(views, activeIndex) THEN NoTarget
    ELSE IF type # "navigate" THEN NoTarget
    ELSE IF direction = "down" THEN downTarget(views[activeIndex + 1])
    ELSE IF direction = "up" THEN upTarget(views[activeIndex + 1])
    ELSE NoTarget

\* the body of processIntention, shared by every caller
processIntentionBody(type, direction) ==
    LET target == intentionTarget(type, direction)
    IN  IF target = NoTarget
        THEN /\ handled' = "false"
             /\ UNCHANGED <<storeVars, lastNavigationTime, lastAccepted>>
        ELSE /\ goToViewBody(target)
             /\ handled' = "true"

processIntention(type, direction) ==
    /\ processIntentionBody(type, direction)
    /\ UNCHANGED <<now>>
    /\ UNCHANGED containerVars
    /\ UNCHANGED hookVars

----------------------------------------------------------------------------
(* Flag setters and the clock *)

setGlobalLock(locked) ==
    /\ isGlobalLocked' = locked
    /\ UNCHANGED <<views, activeIndex, activeId, totalViews, isInitialized, isTransitioning,
                   globalProgress, infiniteScrollEnabled, lastNavigationDirection>>
    /\ Frame

setDragging(dragging) ==
    /\ isDragging' = dragging
    /\ UNCHANGED storeVars
    /\ handled' = "none"
    /\ UNCHANGED <<lastNavigationTime, now, lastAccepted>>
    /\ UNCHANGED containerVars
    /\ UNCHANGED <<dragEnabled, touching, touchStartRef>>
    /\ UNCHANGED lifecycleVars
    /\ UNCHANGED autoVars
    /\ UNCHANGED <<wheelVars, nestedVars>>

startTransition ==
    /\ isTransitioning' = TRUE
    /\ UNCHANGED <<views, activeIndex, activeId, totalViews, isInitialized, isGlobalLocked,
                   globalProgress, infiniteScrollEnabled, lastNavigationDirection>>
    /\ Frame

endTransition ==
    /\ isTransitioning' = FALSE
    /\ UNCHANGED <<views, activeIndex, activeId, totalViews, isInitialized, isGlobalLocked,
                   globalProgress, infiniteScrollEnabled, lastNavigationDirection>>
    /\ Frame

setInfiniteScrollEnabled(enabled) ==
    /\ infiniteScrollEnabled' = enabled
    /\ UNCHANGED <<views, activeIndex, activeId, totalViews, isInitialized, isTransitioning,
                   isGlobalLocked, globalProgress, lastNavigationDirection>>
    /\ Frame

resetNavigationCooldown ==
    /\ lastNavigationTime' = 0
    /\ lastAccepted' = 0
    /\ handled' = "none"
    /\ UNCHANGED <<storeVars, now>>
    /\ UNCHANGED containerVars
    /\ UNCHANGED hookVars

\* time passes
Tick ==
    /\ now + TickStep <= MaxNow
    /\ now' = now + TickStep
    /\ UNCHANGED <<storeVars, lastNavigationTime, handled, lastAccepted>>
    /\ UNCHANGED containerVars
    /\ UNCHANGED hookVars

----------------------------------------------------------------------------
(* Keyboard adapter *)

Keys == {"ArrowDown", "PageDown", "ArrowUp", "PageUp", "Space", "ShiftSpace",
         "Home", "End", "Other"}

handleKeyDown(key) ==
    CASE key \in {"ArrowDown", "PageDown", "Space"} -> processIntention("navigate", "down")
      [] key \in {"ArrowUp", "PageUp", "ShiftSpace"} -> processIntention("navigate", "up")
      [] key = "Home" -> goToView(0)
      [] key = "End" -> goToView(totalViews - 1)
      [] OTHER -> UNCHANGED vars

----------------------------------------------------------------------------
(* The store with its keyboard adapter: registry and navigation *)

GoToIndices == -1 .. 3

Next ==
    \/ initialize
    \/ \E config \in Configs : registerView(config)
    \/ \E id \in ViewIds : unregisterView(id)
    \/ \E type \in IntentionTypes, direction \in Directions : processIntention(type, direction)
    \/ goToNext
    \/ goToPrevious
    \/ \E index \in GoToIndices : goToView(index)
    \/ \E id \in ViewIds : goToViewById(id)
    \/ \E locked \in BOOLEAN : setGlobalLock(locked)
    \/ startTransition
    \/ endTransition
    \/ \E enabled \in BOOLEAN : setInfiniteScrollEnabled(enabled)
    \/ resetNavigationCooldown
    \/ Tick
    \/ \E key \in Keys : handleKeyDown(key)

Spec == Init /\ [][Next]_vars

----------------------------------------------------------------------------
(* The store under metrics reports and explicit locks *)

NextLock ==
    \/ \E config \in LockConfigs : registerView(config)
    \/ \E id \in LockViewIds : unregisterView(id)
    \/ \E id \in LockViewIds, metrics \in MetricsSet : updateViewMetrics(id, metrics)
    \/ \E id \in LockViewIds, lock \in Locks : setViewExplicitLock(id, lock)
    \/ \E direction \in {"up", "down"} : processIntention("navigate", direction)
    \/ \E index \in 0 .. 1 : goToView(index)
    \/ endTransition
    \/ resetNavigationCooldown

SpecLock == Init /\ [][NextLock]_vars

----------------------------------------------------------------------------
(* useViewRegistration: dynamic config updates, and a forceScrollLock view *)

\* the effect calls the store's updateViewConfig when the serialized config
\* changed; the store created in navigation.store.ts has no such action, so
\* the call throws a TypeError and the store is left as it was
configUpdateEffect(id, config) ==
    /\ findIndex(views, id) # -1
    /\ views[findIndex(views, id) + 1].config # config
    /\ UNCHANGED storeVars
    /\ Frame

NextForce ==
    \/ \E config \in ForceConfigs : registerView(config)
    \/ \E id \in ForceViewIds : unregisterView(id)
    \/ \E id \in ForceViewIds, metrics \in MetricsSet : updateViewMetrics(id, metrics)
    \/ \E config \in {ForcedConfig, UnforcedConfig} : configUpdateEffect("f", config)
    \/ \E direction \in {"up", "down"} : processIntention("navigate", direction)
    \/ endTransition
    \/ resetNavigationCooldown

SpecForce == Init /\ [][NextForce]_vars

----------------------------------------------------------------------------
(* The store around a controlled view: backward exit *)

NextBack ==
    \/ \E config \in BackConfigs : registerView(config)
    \/ \E id \in BackViewIds : unregisterView(id)
    \/ \E id \in BackViewIds, metrics \in BackMetricsSet : updateViewMetrics(id, metrics)
    \/ \E id \in BackViewIds, lock \in Locks : setViewExplicitLock(id, lock)
    \/ \E direction \in {"up", "down"} : processIntention("navigate", direction)
    \/ \E enabled \in BOOLEAN : setInfiniteScrollEnabled(enabled)
    \/ endTransition
    \/ resetNavigationCooldown

SpecBack == Init /\ [][NextBack]_vars

----------------------------------------------------------------------------
(* The evaluator over every view type *)

NextEval ==
    \/ \E config \in EvalConfigs : registerView(config)
    \/ \E id \in EvalViewIds : unregisterView(id)
    \/ \E id \in EvalViewIds, metrics \in EvalMetricsSet : updateViewMetrics(id, metrics)
    \/ \E id \in EvalViewIds, lock \in Locks : setViewExplicitLock(id, lock)

SpecEval == Init /\ [][NextEval]_vars

----------------------------------------------------------------------------
(* Navigation out of views of every type that report their scroll position *)

NextTop ==
    \/ \E config \in EvalConfigs : registerView(config)
    \/ \E id \in EvalViewIds, metrics \in TopMetricsSet : updateViewMetrics(id, metrics)
    \/ \E direction \in {"up", "down"} : processIntention("navigate", direction)
    \/ \E enabled \in BOOLEAN : setInfiniteScrollEnabled(enabled)
    \/ endTransition
    \/ resetNavigationCooldown

SpecTop == Init /\ [][NextTop]_vars

----------------------------------------------------------------------------
(* Plain navigation over full views, with and without infinite scroll *)

NextFlow ==
    \/ \E config \in FlowConfigs : registerView(config)
    \/ \E id \in FlowViewIds : unregisterView(id)
    \/ initialize
    \/ \E direction \in {"up", "down"} : processIntention("navigate", direction)
    \/ goToNext
    \/ goToPrevious
    \/ \E enabled \in BOOLEAN : setInfiniteScrollEnabled(enabled)
    \/ endTransition
    \/ resetNavigationCooldown

SpecFlow == Init /\ [][NextFlow]_vars

----------------------------------------------------------------------------
(* useDragHandler: the touch listeners and the store's isDragging flag *)

\* a finger touches the screen, on a data-scrollable element or elsewhere;
\* the listener runs only while the effect has it attached
handleTouchStart(onScrollable) ==
    /\ ~touching
    /\ touching' = TRUE
    /\ IF dragEnabled /\ ~onScrollable
       THEN touchStartRef' = TRUE /\ isDragging' = TRUE
       ELSE UNCHANGED <<touchStartRef, isDragging>>
    /\ handled' = "none"
    /\ UNCHANGED <<storeVars, lastNavigationTime, now, lastAccepted, dragEnabled>>
    /\ UNCHANGED containerVars
    /\ UNCHANGED lifecycleVars
    /\ UNCHANGED autoVars
    /\ UNCHANGED <<wheelVars, nestedVars>>

\* handleTouchEnd: canNavigate && (exceedsThreshold || hasVelocity), where
\* canNavigateInternal is read from the DOM when the view scrolls internally
shouldNavigate(direction, strong, canNavigateInternal) ==
    LET atStart == activeIndex = 0
        atEnd == activeIndex = totalViews - 1
        canNavigate == /\ canNavigateInternal
                       /\ \/ (direction = "down" /\ ~atEnd)
                          \/ (direction = "up" /\ ~atStart)
    IN  canNavigate /\ strong

\* the finger is lifted; `handled` holds what the listener's processIntention
\* call returned, if it made one
handleTouchEnd(direction, strong, canNavigateInternal) ==
    /\ touching
    /\ touching' = FALSE
    /\ (canNavigateInternal
          \/ (HasView(views, activeIndex) /\ views[activeIndex + 1].capability = "internal"))
    /\ IF ~dragEnabled \/ ~touchStartRef
       THEN /\ UNCHANGED <<storeVars, lastNavigationTime, lastAccepted>>
            /\ UNCHANGED <<touchStartRef, isDragging>>
            /\ handled' = "none"
       ELSE /\ IF shouldNavigate(direction, strong, canNavigateInternal)
               THEN processIntentionBody("navigate", direction)
               ELSE /\ UNCHANGED <<storeVars, lastNavigationTime, lastAccepted>>
                    /\ handled' = "none"
            /\ touchStartRef' = FALSE
            /\ isDragging' = FALSE
    /\ UNCHANGED <<now, dragEnabled>>
    /\ UNCHANGED containerVars
    /\ UNCHANGED lifecycleVars
    /\ UNCHANGED autoVars
    /\ UNCHANGED <<wheelVars, nestedVars>>

\* the system cancels the touch
handleTouchCancel ==
    /\ touching
    /\ touching' = FALSE
    /\ IF dragEnabled
       THEN touchStartRef' = FALSE /\ isDragging' = FALSE
       ELSE UNCHANGED <<touchStartRef, isDragging>>
    /\ handled' = "none"
    /\ UNCHANGED <<storeVars, lastNavigationTime, now, lastAccepted, dragEnabled>>
    /\ UNCHANGED containerVars
    /\ UNCHANGED lifecycleVars
    /\ UNCHANGED autoVars
    /\ UNCHANGED <<wheelVars, nestedVars>>

\* the effect re-runs for a new value of `enabled` (or the component unmounts,
\* enabled = FALSE): the cleanup removes the listeners, the body attaches
\* them again only when enabled
dragEffect(enabled) ==
    /\ enabled # dragEnabled
    /\ dragEnabled' = enabled
    /\ handled' = "none"
    /\ UNCHANGED <<storeVars, lastNavigationTime, now, lastAccepted>>
    /\ UNCHANGED <<isDragging, touching, touchStartRef>>
    /\ UNCHANGED containerVars
    /\ UNCHANGED lifecycleVars
    /\ UNCHANGED autoVars
    /\ UNCHANGED <<wheelVars, nestedVars>>

\* the finger leaves the screen, by touchend or by touchcancel
fingerLifts ==
    \/ \E direction \in {"up", "down"}, strong \in BOOLEAN, canNavigateInternal \in BOOLEAN :
          handleTouchEnd(direction, strong, canNavigateInternal)
    \/ handleTouchCancel

NextDrag ==
    \/ \E config \in LockConfigs : registerView(config)
    \/ \E dragging \in BOOLEAN : setDragging(dragging)
    \/ \E locked \in BOOLEAN : setGlobalLock(locked)
    \/ \E direction \in {"up", "down"} : processIntention("navigate", direction)
    \/ endTransition
    \/ resetNavigationCooldown
    \/ \E onScrollable \in BOOLEAN : handleTouchStart(onScrollable)
    \/ \E direction \in {"up", "down"}, strong \in BOOLEAN, canNavigateInternal \in BOOLEAN :
          handleTouchEnd(direction, strong, canNavigateInternal)
    \/ handleTouchCancel
    \/ \E enabled \in BOOLEAN : dragEffect(enabled)

\* a finger on the screen is lifted sooner or later
SpecDrag == Init /\ [][NextDrag]_vars /\ WF_vars(fingerLifts)

----------------------------------------------------------------------------
(* useViewRegistration: activation and transition callbacks of each view *)

\* const isActive = activeId === config.id
isActiveOf(id) == activeId = id

\* the values the two callback effects depend on, as the view renders now
currentViewDeps(id) == <<isActiveOf(id), isTransitioning>>

\* every mounted view has run its effects for the current store state
EffectsSettled == \A id \in LockViewIds : viewDeps[id] = currentViewDeps(id)

\* the view re-rendered with a changed isActive or isTransitioning: the
\* activation effect runs first when isActive changed, then the transition
\* effect, which reads wasActiveRef as the activation effect has left it
viewEffects(id) ==
    /\ viewDeps[id] # currentViewDeps(id)
    /\ LET isActive == isActiveOf(id)
           activeChanged == viewDeps[id][1] # isActive
           byActivation ==
               IF ~activeChanged THEN {}
               ELSE IF isActive /\ ~wasActiveRef[id] THEN {"onActivate"}
               ELSE IF ~isActive /\ wasActiveRef[id] THEN {"onDeactivate"}
               ELSE {}
           wasActive == IF activeChanged THEN isActive ELSE wasActiveRef[id]
           wasTransitioning == wasTransitioningRef[id]
           byStart ==
               IF ~(isTransitioning /\ ~wasTransitioning) THEN {}
               ELSE IF isActive /\ ~wasActive THEN {"onEnterStart"}
               ELSE IF ~isActive /\ wasActive THEN {"onExitStart"}
               ELSE {}
           byEnd ==
               IF ~(~isTransitioning /\ wasTransitioning) THEN {}
               ELSE IF isActive THEN {"onEnterEnd"}
               ELSE IF wasActive /\ ~isActive THEN {"onExitEnd"}
               ELSE {}
       IN  /\ wasActiveRef' = [wasActiveRef EXCEPT ![id] = wasActive]
           /\ wasTransitioningRef' = [wasTransitioningRef EXCEPT ![id] = isTransitioning]
           /\ viewDeps' = [viewDeps EXCEPT ![id] = currentViewDeps(id)]
           /\ fired' = [fired EXCEPT ![id] = byActivation \cup byStart \cup byEnd]
    /\ UNCHANGED <<storeVars, lastNavigationTime, now, handled, lastAccepted>>
    /\ UNCHANGED containerVars
    /\ UNCHANGED <<isDragging, dragEnabled, touching, touchStartRef>>
    /\ UNCHANGED autoVars
    /\ UNCHANGED <<wheelVars, nestedVars>>

\* React runs the pending effects of the views before the next event
NextLifecycle ==
    \/ \E id \in LockViewIds : viewEffects(id)
    \/ (EffectsSettled /\ \E config \in LockConfigs : registerView(config))
    \/ (EffectsSettled /\ \E direction \in {"up", "down"} :
                            processIntention("navigate", direction))
    \/ (EffectsSettled /\ endTransition)
    \/ (EffectsSettled /\ resetNavigationCooldown)
    \/ (EffectsSettled /\ Tick)

SpecLifecycle == Init /\ [][NextLifecycle]_vars

----------------------------------------------------------------------------
(* useAutoScroll, mounted with enabled and pauseOnInteraction on, direction
   forward and stopAtEnd off: the interaction effect and the interval effect *)

\* [isDragging, isTransitioning] as the hook renders now
currentInteractionDeps == <<isDragging, isTransitioning>>

\* the store values in the dependency array of the interval effect
currentIntervalDeps ==
    <<isAutoScrollPaused, isTransitioning, activeIndex, totalViews, infiniteScrollEnabled>>

\* the hook has run its effects for the current store state
AutoSettled ==
    autoMounted => (interactionDeps = currentInteractionDeps /\ intervalDeps = currentIntervalDeps)

\* one commit of the hook.  The cleanups of the effects that re-run come
\* first: the interaction effect clears the resume timeout, the interval
\* effect clears the interval.  Then the bodies run in declaration order with
\* the values of this render: the interaction effect pauses and schedules
\* the resume when an interaction is in progress, the initialization effect
\* (on mount only) sets isAutoScrolling and clears the pause, the interval
\* effect starts the interval unless paused or transitioning.
autoCommit(mounting) ==
    LET runInteraction == mounting \/ interactionDeps # currentInteractionDeps
        runInterval == mounting \/ intervalDeps # currentIntervalDeps
        interacting == isDragging \/ isTransitioning
        pausedByInteraction == IF runInteraction /\ interacting THEN TRUE
                               ELSE isAutoScrollPaused
    IN  /\ resumeTimeoutRef' = IF runInteraction THEN interacting ELSE resumeTimeoutRef
        /\ isAutoScrollPaused' = IF mounting THEN FALSE ELSE pausedByInteraction
        /\ isAutoScrolling' = IF mounting THEN TRUE ELSE isAutoScrolling
        /\ intervalRef' = IF runInterval
                          THEN ~(isAutoScrollPaused \/ isTransitioning)
                          ELSE intervalRef
        /\ interactionDeps' = currentInteractionDeps
        /\ intervalDeps' = currentIntervalDeps
        /\ autoMounted' = TRUE
        /\ handled' = "none"
        /\ UNCHANGED <<storeVars, lastNavigationTime, now, lastAccepted>>
        /\ UNCHANGED containerVars
        /\ UNCHANGED <<isDragging, dragEnabled, touching, touchStartRef>>
        /\ UNCHANGED lifecycleVars
        /\ UNCHANGED <<wheelVars, nestedVars>>

autoMount == ~autoMounted /\ autoCommit(TRUE)

autoEffects == autoMounted /\ ~AutoSettled /\ autoCommit(FALSE)

\* setTimeout(() => { if (enabled) resume() }, resumeDelay) fires
resumeTimeoutFires ==
    /\ resumeTimeoutRef
    /\ resumeTimeoutRef' = FALSE
    /\ isAutoScrollPaused' = FALSE
    /\ handled' = "none"
    /\ UNCHANGED <<storeVars, lastNavigationTime, now, lastAccepted>>
    /\ UNCHANGED containerVars
    /\ UNCHANGED <<isDragging, dragEnabled, touching, touchStartRef>>
    /\ UNCHANGED lifecycleVars
    /\ UNCHANGED <<wheelVars, nestedVars>>
    /\ UNCHANGED <<isAutoScrolling, autoMounted, intervalRef, interactionDeps, intervalDeps>>

\* setInterval(() => goToNext(), interval) fires
intervalFires == intervalRef /\ goToNext

\* the transition timer of the container ends the transition
transitionEnds == isTransitioning /\ endTransition

\* the touch gesture ends
dragEnds == isDragging /\ setDragging(FALSE)

\* React runs the pending effects of the hook before the next event
NextAuto ==
    \/ autoEffects
    \/ (AutoSettled /\ autoMount)
    \/ (AutoSettled /\ \E config \in LockConfigs : registerView(config))
    \/ (AutoSettled /\ setDragging(TRUE))
    \/ (AutoSettled /\ dragEnds)
    \/ (AutoSettled /\ intervalFires)
    \/ (AutoSettled /\ resumeTimeoutFires)
    \/ (AutoSettled /\ transitionEnds)
    \/ (AutoSettled /\ Tick)

\* effects run after every commit, started timers fire, interactions end
SpecAuto ==
    /\ Init
    /\ [][NextAuto]_vars
    /\ WF_vars(autoEffects)
    /\ SF_vars(AutoSettled /\ resumeTimeoutFires)
    /\ WF_vars(AutoSettled /\ transitionEnds)
    /\ WF_vars(AutoSettled /\ dragEnds)

----------------------------------------------------------------------------
(* ScrollContainer: the view change and transition effect *)

\* const effectiveDuration = reducedMotion ? 0 : transitionDuration
effectiveDuration == IF reducedMotion THEN 0 ELSE DEFAULT_TRANSITION_DURATION

\* the dependency array [activeIndex, effectiveDuration, onViewChange, endTransition]
\* (endTransition is a stable store action)
currentDeps == <<activeIndex, effectiveDuration, onViewChange>>

\* a render changed a dependency and the effect has not run for it yet
EffectPending == effectDeps # currentDeps

\* the effect re-runs: the cleanup of the previous run clears its timeout, then
\* the body starts a new timeout only when prevIndexRef differs from activeIndex
runTransitionEffect ==
    /\ EffectPending
    /\ effectDeps' = currentDeps
    /\ IF prevIndexRef # activeIndex
       THEN /\ transitionTimer' = TRUE
            /\ prevIndexRef' = activeIndex
       ELSE /\ transitionTimer' = FALSE
            /\ UNCHANGED prevIndexRef
    /\ UNCHANGED <<storeVars, lastNavigationTime, now, handled, lastAccepted,
                   onViewChange, reducedMotion>>
    /\ UNCHANGED hookVars

\* setTimeout(() => endTransition(), effectiveDuration) fires
transitionTimerFires ==
    /\ transitionTimer
    /\ transitionTimer' = FALSE
    /\ isTransitioning' = FALSE
    /\ handled' = "none"
    /\ UNCHANGED <<views, activeIndex, activeId, totalViews, isInitialized, isGlobalLocked,
                   globalProgress, infiniteScrollEnabled, lastNavigationDirection>>
    /\ UNCHANGED <<lastNavigationTime, now, lastAccepted,
                   prevIndexRef, effectDeps, onViewChange, reducedMotion>>
    /\ UNCHANGED hookVars

\* the parent re-renders and passes a new onViewChange function
changeOnViewChange ==
    /\ onViewChange' = 1 - onViewChange
    /\ UNCHANGED <<storeVars, lastNavigationTime, now, handled, lastAccepted,
                   prevIndexRef, transitionTimer, effectDeps, reducedMotion>>
    /\ UNCHANGED hookVars

\* the prefers-reduced-motion media query changes
setReducedMotion(matches) ==
    /\ reducedMotion' = matches
    /\ UNCHANGED <<storeVars, lastNavigationTime, now, handled, lastAccepted,
                   prevIndexRef, transitionTimer, effectDeps, onViewChange>>
    /\ UNCHANGED hookVars

\* React runs a pending effect before the next event or timeout is handled
Ready == ~EffectPending

NextContainer ==
    \/ runTransitionEffect
    \/ (Ready /\ transitionTimerFires)
    \/ (Ready /\ \E config \in Configs : registerView(config))
    \/ (Ready /\ initialize)
    \/ (Ready /\ \E direction \in {"up", "down"} : processIntention("navigate", direction))
    \/ (Ready /\ \E key \in {"Home", "End"} : handleKeyDown(key))
    \/ (Ready /\ Tick)
    \/ (Ready /\ changeOnViewChange)
    \/ (Ready /\ \E matches \in BOOLEAN : setReducedMotion(matches))

\* the effect runs after every render and a started timeout fires
SpecContainer ==
    /\ Init
    /\ [][NextContainer]_vars
    /\ WF_vars(runTransitionEffect)
    /\ WF_vars(Ready /\ transitionTimerFires)

----------------------------------------------------------------------------
(* Calls that ask the store to navigate *)

IntentionCall == \E type \in IntentionTypes, direction \in Directions :
                    processIntention(type, direction)

KeyboardCall == \E key \in Keys : handleKeyDown(key)

NavigationCall ==
    \/ IntentionCall
    \/ goToNext
    \/ goToPrevious
    \/ \E index \in GoToIndices : goToView(index)
    \/ \E id \in ViewIds : goToViewById(id)
    \/ KeyboardCall

ActiveView == views[activeIndex + 1]

----------------------------------------------------------------------------
(* useWheelHandler *)

\* NAV_THRESHOLDS.WHEEL
WHEEL_THRESHOLD == 60

\* the gap after which a wheel gesture counts as interrupted
WHEEL_GESTURE_GAP == 200

\* |scrollAccumulator.current| stays within this bound in the model
MaxAccumulator == 120

\* wheel events: pixel mode (deltaMode 0) and line mode (deltaMode 1)
WheelEvents ==
    { [deltaY |-> 30, deltaMode |-> 0], [deltaY |-> 0 - 30, deltaMode |-> 0],
      [deltaY |-> 2, deltaMode |-> 1], [deltaY |-> 0 - 2, deltaMode |-> 1] }

\* what the [data-scrollable] element of the active scroll-locked view reports
DomMetricsSet == { Met(2000, 800, 0), Met(2000, 800, 600), Met(2000, 800, 1200) }

\* overflowing content in the middle and at the end
WheelMetricsSet == { Met(2000, 800, 600), Met(2000, 800, 1200) }

\* normalizeWheel(event).pixelY
normalizeWheel(event) ==
    IF event.deltaMode = 1 THEN event.deltaY * 40
    ELSE IF event.deltaMode = 2 THEN event.deltaY * 800
    ELSE event.deltaY

\* the active view has internal scroll, the scrollable element of an active
\* scroll-locked view was found (data-active follows activeId) and it is not
\* at the boundary in the direction of the event
allowsNativeScroll(pixelY, found, element) ==
    /\ HasView(views, activeIndex)
    /\ views[activeIndex + 1].capability = "internal"
    /\ views[activeIndex + 1].type = "scroll-locked"
    /\ found
    /\ LET maxScroll == element.scrollHeight - element.clientHeight
           isAtBottom == element.scrollTop >= maxScroll - 1
           isAtTop == element.scrollTop <= 1
       IN  (pixelY > 0 /\ ~isAtBottom) \/ (pixelY < 0 /\ ~isAtTop)

\* variant: the accumulator is never restarted after a pause
accumulateWithoutGap(delta) == scrollAccumulator + delta

\* scrollAccumulator.current after the delta was added and the time test applied
accumulate(delta) ==
    IF now - lastScrollTime > WHEEL_GESTURE_GAP THEN delta ELSE scrollAccumulator + delta

\* variant: the threshold must be exceeded
reachesThresholdStrictly(accumulated) == Abs(accumulated) > WHEEL_THRESHOLD

reachesThreshold(accumulated) == Abs(accumulated) >= WHEEL_THRESHOLD

handleWheel(event, found, element) ==
    LET pixelY == normalizeWheel(event)
        accumulated == accumulate(pixelY)
    IN  /\ Abs(accumulated) <= MaxAccumulator
        /\ IF isTransitioning \/ isDragging
           THEN /\ handled' = "none"
                /\ UNCHANGED <<storeVars, lastNavigationTime, lastAccepted, wheelVars>>
           ELSE IF allowsNativeScroll(pixelY, found, element)
           THEN /\ scrollAccumulator' = 0
                /\ handled' = "none"
                /\ UNCHANGED <<storeVars, lastNavigationTime, lastAccepted, lastScrollTime>>
           ELSE /\ lastScrollTime' = now
                /\ IF reachesThreshold(accumulated)
                   THEN /\ processIntentionBody("navigate",
                                                IF accumulated > 0 THEN "down" ELSE "up")
                        /\ scrollAccumulator' = IF handled' = "true" THEN 0 ELSE accumulated
                   ELSE /\ scrollAccumulator' = accumulated
                        /\ handled' = "none"
                        /\ UNCHANGED <<storeVars, lastNavigationTime, lastAccepted>>
        /\ UNCHANGED <<now>>
        /\ UNCHANGED containerVars
        /\ UNCHANGED <<isDragging, dragEnabled, touching, touchStartRef>>
        /\ UNCHANGED lifecycleVars
        /\ UNCHANGED autoVars
        /\ UNCHANGED nestedVars

NextWheel ==
    \/ \E config \in LockConfigs : registerView(config)
    \/ \E id \in LockViewIds, metrics \in WheelMetricsSet : updateViewMetrics(id, metrics)
    \/ \E event \in WheelEvents, found \in BOOLEAN, element \in DomMetricsSet :
          handleWheel(event, found, element)
    \/ \E dragging \in BOOLEAN : setDragging(dragging)
    \/ endTransition
    \/ Tick

SpecWheel == Init /\ [][NextWheel]_vars

----------------------------------------------------------------------------
(* NestedScrollView and useScrollLock *)

\* unlock timeouts of NestedScrollView pending at once in the model
MaxUnlockTimers == 2

\* a full view and a <NestedScrollView id="n">
NestedConfigs == { Cfg("a", "full", TRUE, 99), Cfg("n", "nested", TRUE, 99) }

\* what a call of setGlobalLock from a component or the application leaves alone
lockFrame ==
    /\ UNCHANGED <<views, activeIndex, activeId, totalViews, isInitialized, isTransitioning,
                   globalProgress, infiniteScrollEnabled, lastNavigationDirection>>
    /\ handled' = "none"
    /\ UNCHANGED <<lastNavigationTime, now, lastAccepted>>
    /\ UNCHANGED containerVars
    /\ UNCHANGED <<isDragging, dragEnabled, touching, touchStartRef>>
    /\ UNCHANGED lifecycleVars
    /\ UNCHANGED autoVars
    /\ UNCHANGED wheelVars

\* useScrollLock().lock(), called by the application
lock ==
    /\ isGlobalLocked' = TRUE
    /\ lockRequested' = TRUE
    /\ UNCHANGED <<nestedTouching, unlockTimers>>
    /\ lockFrame

\* useScrollLock().unlock(), called by the application
unlock ==
    /\ isGlobalLocked' = FALSE
    /\ lockRequested' = FALSE
    /\ UNCHANGED <<nestedTouching, unlockTimers>>
    /\ lockFrame

\* NestedScrollView.handleTouchStart (isNestedScrolling is set and never read)
nestedTouchStart ==
    /\ findIndex(views, "n") # -1
    /\ ~nestedTouching
    /\ nestedTouching' = TRUE
    /\ isGlobalLocked' = TRUE
    /\ UNCHANGED <<lockRequested, unlockTimers>>
    /\ lockFrame

\* NestedScrollView.handleTouchEnd: only schedules the unlock
nestedTouchEnd ==
    /\ nestedTouching
    /\ unlockTimers < MaxUnlockTimers
    /\ nestedTouching' = FALSE
    /\ unlockTimers' = unlockTimers + 1
    /\ UNCHANGED <<isGlobalLocked, lockRequested>>
    /\ lockFrame

\* the timeout of handleTouchEnd fires 100 ms later
unlockTimerFires ==
    /\ unlockTimers > 0
    /\ unlockTimers' = unlockTimers - 1
    /\ isGlobalLocked' = FALSE
    /\ UNCHANGED <<lockRequested, nestedTouching>>
    /\ lockFrame

NextNested ==
    \/ \E config \in NestedConfigs : registerView(config)
    \/ lock
    \/ unlock
    \/ nestedTouchStart
    \/ nestedTouchEnd
    \/ unlockTimerFires
    \/ \E direction \in {"up", "down"} : processIntention("navigate", direction)
    \/ endTransition

SpecNested == Init /\ [][NextNested]_vars

----------------------------------------------------------------------------
(* C1: in every reachable state, if views is non-empty exactly one view has
   isActive = TRUE and it is views[activeIndex]; if views is empty no view is
   active. *)
C1_ExactlyOneActive ==
    Len(views) > 0 =>
        /\ HasView(views, activeIndex)
        /\ \A i \in 1..Len(views) : views[i].isActive <=> (i - 1 = activeIndex)

(* C2: processIntention returns true only if the call changed activeIndex, and
   an intention inside the navigation cooldown, during a transition or under
   the global lock returns false and leaves the store state unchanged. *)
C2_TrueOnlyIfNavigated ==
    [][IntentionCall =>
        /\ (handled' = "true" => activeIndex' # activeIndex)
        /\ (InCooldown(now, lastNavigationTime) \/ isTransitioning \/ isGlobalLocked)
              => (handled' = "false" /\ UNCHANGED storeVars)]_vars

(* C3: while isGlobalLocked is true no navigation call (processIntention,
   goToView, goToNext, goToPrevious, keyboard Home/End) changes activeIndex. *)
C3_GlobalLockBlocksAllNavigation ==
    [][(isGlobalLocked /\ NavigationCall) => activeIndex' = activeIndex]_vars

(* C4: under a mounted ScrollContainer every transition eventually ends:
   whenever isTransitioning is true it eventually becomes false, whatever
   re-renders and prop changes happen while the timer is pending. *)
C4_TransitionEventuallyEnds == isTransitioning ~> ~isTransitioning

(* C5: while isTransitioning is true no keyboard event, Home and End
   included, changes activeIndex. *)
C5_NoKeyboardNavigationWhileTransitioning ==
    [][(isTransitioning /\ KeyboardCall) => activeIndex' = activeIndex]_vars

(* C6: a navigation call issued less than NAVIGATION_COOLDOWN ms after the
   previously accepted navigation, with no cooldown reset in between, leaves
   the store state unchanged whichever source issued it; a goToView call to
   another view in range made once the cooldown is reset or has elapsed
   navigates to that view. *)
C6_OneNavigationPerCooldown ==
    [][/\ (now - lastAccepted < NAVIGATION_COOLDOWN /\ NavigationCall)
            => UNCHANGED storeVars
       /\ \A index \in GoToIndices :
            (/\ now - lastNavigationTime >= NAVIGATION_COOLDOWN
             /\ targetValid(resolveTarget(index))
             /\ goToView(index))
            => (activeIndex' = resolveTarget(index) /\ isTransitioning')]_vars

\* an intention arrived strictly inside the cooldown of an accepted navigation,
\* after the transition had ended, and was passed to goToView
C6_Witness ==
    /\ handled = "true"
    /\ ~isTransitioning
    /\ lastAccepted > 0
    /\ now > lastAccepted
    /\ now - lastAccepted < NAVIGATION_COOLDOWN

(* C7: in every reachable state a view whose explicitLock is non-null has
   navigation equal to explicitLock, whatever metrics were reported. *)
C7_ExplicitLockWins ==
    \A i \in 1..Len(views) :
        views[i].explicitLock # NULL => views[i].navigation = views[i].explicitLock

\* a scroll-locked view that overflows and is not scrolled to the end is
\* explicitly unlocked, and a view scrolled to the end is explicitly locked
C7_Witness ==
    /\ \E i \in 1..Len(views) :
        /\ views[i].type = "scroll-locked"
        /\ views[i].capability = "internal"
        /\ ~AtLeast99(views[i].progress)
        /\ views[i].explicitLock = "unlocked"
    /\ \E i \in 1..Len(views) :
        /\ views[i].capability = "internal"
        /\ AtLeast99(views[i].progress)
        /\ views[i].explicitLock = "locked"

(* C8: in every reachable state activeIndex is in [0, totalViews - 1], or the
   registry is empty and activeIndex = 0. *)
C8_ActiveIndexInRange ==
    /\ totalViews = Len(views)
    /\ IF totalViews = 0 THEN activeIndex = 0
       ELSE activeIndex >= 0 /\ activeIndex <= totalViews - 1

\* the third view was navigated to and then unregistered: activeIndex was
\* clamped from 2 to the new last position, whose view was never activated
C8_Witness ==
    /\ totalViews = 2
    /\ activeIndex = 1
    /\ lastNavigationDirection = "down"
    /\ ~views[1].isActive
    /\ ~views[1].isPreloaded
    /\ ~views[2].isActive

(* C9: a down intention is rejected (returns false, activeIndex and
   isTransitioning unchanged) whenever the active view's navigation is locked;
   a metrics report with progress at the end unlocks a view without explicit
   lock, and a down intention on an unlocked active view that is not the last
   one, outside transition and cooldown, returns true and advances by one. *)
C9_DownRespectsNavigationLock ==
    [][/\ (/\ HasView(views, activeIndex)
           /\ ActiveView.navigation = "locked"
           /\ processIntention("navigate", "down"))
          => /\ handled' = "false"
             /\ activeIndex' = activeIndex
             /\ isTransitioning' = isTransitioning
       /\ \A id \in ViewIds, metrics \in MetricsSet :
            (/\ findIndex(views, id) # -1
             /\ views[findIndex(views, id) + 1].explicitLock = NULL
             /\ AtLeast99(calculateProgress(metrics))
             /\ updateViewMetrics(id, metrics))
            => views'[findIndex(views, id) + 1].navigation = "unlocked"
       /\ (/\ HasView(views, activeIndex)
           /\ ActiveView.navigation = "unlocked"
           /\ ~isTransitioning /\ ~isGlobalLocked
           /\ ~InCooldown(now, lastNavigationTime)
           /\ activeIndex < totalViews - 1
           /\ processIntention("navigate", "down"))
          => /\ handled' = "true"
             /\ activeIndex' = activeIndex + 1]_vars

\* a down intention was just rejected on an overflowing scroll-locked view
\* below the end threshold, with nothing else in the way
C9_Witness ==
    /\ handled = "false"
    /\ HasView(views, activeIndex)
    /\ ActiveView.type = "scroll-locked"
    /\ ActiveView.capability = "internal"
    /\ ActiveView.explicitLock = NULL
    /\ ActiveView.navigation = "locked"
    /\ ~isTransitioning /\ ~isGlobalLocked
    /\ ~InCooldown(now, lastNavigationTime)
    /\ activeIndex < totalViews - 1

(* C10: a scroll-locked view registered with scrollEndThreshold = t, with
   capability internal and no explicit lock, has navigation = unlocked exactly
   when its progress >= t. *)
C10_ThresholdPerView ==
    \A i \in 1..Len(views) :
        (/\ views[i].type = "scroll-locked"
         /\ views[i].capability = "internal"
         /\ views[i].explicitLock = NULL)
        => (views[i].navigation = "unlocked"
              <=> 100 * views[i].progress.num
                     >= views[i].config.scrollEndThreshold * views[i].progress.den)

(* C11: a scroll-locked view whose forceScrollLock is true (and that has no
   explicit lock) has navigation = locked, even when its capability is none;
   and when a changed config is passed for a registered view the stored
   config becomes that config. *)
C11_ForceScrollLockLocks ==
    /\ [](\A i \in 1..Len(views) :
            (/\ views[i].type = "scroll-locked"
             /\ views[i].config.forceScrollLock
             /\ views[i].explicitLock = NULL)
            => views[i].navigation = "locked")
    /\ [][\A config \in {ForcedConfig, UnforcedConfig} :
            configUpdateEffect("f", config)
            => views'[findIndex(views, "f") + 1].config = config]_vars

\* processIntention's own preconditions hold and goToView is outside the cooldown
IntentionFree ==
    /\ ~isTransitioning
    /\ ~isGlobalLocked
    /\ ~InCooldown(now, lastNavigationTime)
    /\ HasView(views, activeIndex)

\* the active view overflows and is scrolled away from its top
ScrolledAway == ActiveView.capability = "internal" /\ ActiveView.metrics.scrollTop > 1

(* C12: an up intention on an active controlled view whose allowGoBack is not
   false navigates to the previous view even when its explicitLock is locked
   (a previous view exists, the view is not scrolled away from the top); on
   an active view of any other type an up intention is rejected while
   explicitLock is locked and navigates back once the lock is no longer
   locked. *)
C12_BackwardExitAsymmetry ==
    [][/\ (/\ IntentionFree
           /\ ActiveView.type = "controlled"
           /\ ActiveView.config.allowGoBack # FALSE
           /\ ActiveView.explicitLock = "locked"
           /\ activeIndex > 0
           /\ ~ScrolledAway
           /\ processIntention("navigate", "up"))
          => (handled' = "true" /\ activeIndex' = activeIndex - 1)
       /\ (/\ HasView(views, activeIndex)
           /\ ActiveView.type # "controlled"
           /\ ActiveView.explicitLock = "locked"
           /\ processIntention("navigate", "up"))
          => (handled' = "false" /\ activeIndex' = activeIndex)
       /\ (/\ IntentionFree
           /\ ActiveView.type # "controlled"
           /\ ActiveView.explicitLock # "locked"
           /\ activeIndex > 0
           /\ ~ScrolledAway
           /\ processIntention("navigate", "up"))
          => (handled' = "true" /\ activeIndex' = activeIndex - 1)]_vars

\* the up intention just left a controlled view that is explicitly locked:
\* the call passed the transition test and started the transition itself
C12_Witness ==
    /\ handled = "true"
    /\ isTransitioning
    /\ lastNavigationDirection = "up"
    /\ activeIndex = 0
    /\ Len(views) = 2
    /\ views[2].type = "controlled"
    /\ views[2].explicitLock = "locked"

(* C13: an up intention on an active controlled view with allowGoBack = false
   returns false and leaves activeIndex unchanged, whatever the view's
   capability, metrics, explicit lock, position and the infinite-scroll
   setting; with allowGoBack = true the same intention (a previous view
   exists, the view is not scrolled away from the top) returns true and
   navigates to the previous view. *)
C13_AllowGoBackFalseBlocksUp ==
    [][/\ (/\ HasView(views, activeIndex)
           /\ ActiveView.type = "controlled"
           /\ ActiveView.config.allowGoBack = FALSE
           /\ processIntention("navigate", "up"))
          => (handled' = "false" /\ activeIndex' = activeIndex)
       /\ (/\ IntentionFree
           /\ ActiveView.type = "controlled"
           /\ ActiveView.config.allowGoBack = TRUE
           /\ activeIndex > 0
           /\ ~ScrolledAway
           /\ processIntention("navigate", "up"))
          => (handled' = "true" /\ activeIndex' = activeIndex - 1)]_vars

\* an intention was just refused on a controlled view with allowGoBack off
\* that is not scrollable, has no lock and has a previous view; with infinite
\* scroll on a down intention would have been passed on, so it was an up one
C13_Witness ==
    /\ handled = "false"
    /\ ~isTransitioning
    /\ ~isGlobalLocked
    /\ infiniteScrollEnabled
    /\ activeIndex = 1
    /\ HasView(views, activeIndex)
    /\ ActiveView.type = "controlled"
    /\ ActiveView.config.allowGoBack = FALSE
    /\ ActiveView.capability = "none"
    /\ ActiveView.explicitLock = NULL
    /\ ActiveView.navigation = "unlocked"

(* C14: goToView with an id that matches no registered view leaves the store
   unchanged, also when infinite scroll is enabled; goToView with an
   out-of-range index leaves the store unchanged when infinite scroll is
   off. *)
C14_UnresolvableTargetIgnored ==
    [][/\ \A id \in ViewIds :
            (findIndex(views, id) = -1 /\ goToViewById(id)) => UNCHANGED storeVars
       /\ \A index \in GoToIndices :
            (/\ ~infiniteScrollEnabled
             /\ (index < 0 \/ index >= totalViews)
             /\ goToView(index))
            => UNCHANGED storeVars]_vars

\* a down intention with nothing in its way is passed on and advances by one
FreeDownAdvances ==
    (/\ IntentionFree
     /\ ActiveView.navigation = "unlocked"
     /\ activeIndex < totalViews - 1
     /\ processIntention("navigate", "down"))
    => (handled' = "true" /\ activeIndex' = activeIndex + 1 /\ isTransitioning')

(* C15: while isGlobalLocked is true processIntention returns false for every
   intention and leaves the store unchanged; with the lock off (and no
   transition or cooldown) a down intention on an unlocked view that is not
   the last returns true and navigates. *)
C15_GlobalLockRejectsIntentions ==
    [][/\ (isGlobalLocked /\ IntentionCall)
            => (handled' = "false" /\ UNCHANGED storeVars)
       /\ (~isGlobalLocked => FreeDownAdvances)]_vars

\* an intention was just refused under the global lock although the active
\* view is a full view with a next view and no transition is running
C15_Witness ==
    /\ handled = "false"
    /\ isGlobalLocked
    /\ ~isTransitioning
    /\ totalViews >= 2
    /\ activeIndex = 0
    /\ ActiveView.type = "full"
    /\ ~InCooldown(now, lastNavigationTime)

(* C16: while isTransitioning is true, whether set by startTransition or by a
   navigation, processIntention returns false for every intention and leaves
   the store unchanged; with the transition ended (cooldown elapsed, no
   global lock) a down intention on an unlocked view that is not the last
   returns true and navigates. *)
C16_TransitionRejectsIntentions ==
    [][/\ (isTransitioning /\ IntentionCall)
            => (handled' = "false" /\ UNCHANGED storeVars)
       /\ (~isTransitioning => FreeDownAdvances)]_vars

\* an intention was just refused during the transition of a navigation from
\* the first view to the second of three, after the cooldown had elapsed
C16_Witness ==
    /\ handled = "false"
    /\ isTransitioning
    /\ ~isGlobalLocked
    /\ lastAccepted > 0
    /\ now - lastAccepted >= NAVIGATION_COOLDOWN
    /\ totalViews = 3
    /\ activeIndex = 1
    /\ lastNavigationDirection = "down"

(* C17: in every reachable state each view's capability is none iff its stored
   scrollHeight - clientHeight <= 1, and, when explicitLock is null, its
   navigation is locked iff its type is scroll-locked or controlled, its
   capability is internal and its stored progress is below 0.99. *)
C17_DerivedFieldsAgree ==
    \A i \in 1..Len(views) :
        /\ views[i].capability = "none"
              <=> views[i].metrics.scrollHeight - views[i].metrics.clientHeight <= 1
        /\ views[i].explicitLock = NULL
              => (views[i].navigation = "locked"
                    <=> /\ views[i].type \in {"scroll-locked", "controlled"}
                        /\ views[i].capability = "internal"
                        /\ ~AtLeast99(views[i].progress))

\* a nested view overflows and is scrolled a little, unlocked; the other view
\* holds an overflow of exactly one pixel
C17_Witness ==
    /\ Len(views) = 2
    /\ \E i \in 1..2 :
        /\ views[i].type = "nested"
        /\ views[i].capability = "internal"
        /\ ~AtLeast99(views[i].progress)
        /\ views[i].explicitLock = NULL
        /\ views[i].navigation = "unlocked"
    /\ \E i \in 1..2 :
        /\ views[i].metrics = Met(801, 800, 0)
        /\ views[i].capability = "none"

(* C18: with full views, no infinite scroll and no locks, a down intention
   issued after endTransition and a cooldown reset returns true and raises
   activeIndex by exactly 1 while activeIndex < N - 1, and returns false at
   N - 1 leaving activeIndex; an up intention lowers activeIndex by 1 down to
   0, where it returns false. *)
C18_StepByOneUntilTheEnds ==
    [][/\ (/\ IntentionFree /\ ~infiniteScrollEnabled
           /\ processIntention("navigate", "down"))
          => IF activeIndex < totalViews - 1
             THEN handled' = "true" /\ activeIndex' = activeIndex + 1
             ELSE handled' = "false" /\ activeIndex' = activeIndex
       /\ (/\ IntentionFree /\ ~infiniteScrollEnabled
           /\ processIntention("navigate", "up"))
          => IF activeIndex > 0
             THEN handled' = "true" /\ activeIndex' = activeIndex - 1
             ELSE handled' = "false" /\ activeIndex' = activeIndex]_vars

\* an intention was just refused at the first of three views, reached by
\* navigating up, with nothing else in its way
C18_Witness ==
    /\ handled = "false"
    /\ ~infiniteScrollEnabled
    /\ IntentionFree
    /\ totalViews = 3
    /\ activeIndex = 0
    /\ lastNavigationDirection = "up"

\* three (full) views are registered and initialized, and the cooldown was reset
ScenarioAReady ==
    /\ totalViews = 3
    /\ isInitialized
    /\ ~infiniteScrollEnabled
    /\ ~isGlobalLocked
    /\ lastNavigationTime = 0

\* what the scenario expects of a down intention at each position
ScenarioADown ==
    /\ processIntention("navigate", "down")
    /\ IF activeIndex < 2
       THEN handled' = "true" /\ activeIndex' = activeIndex + 1
       ELSE handled' = "false" /\ activeIndex' = 2

(* C19 as stated: after registering 3 full views and initialize
   (activeIndex = 0), every down intention fired after a cooldown reset
   advances by one from 0 to 1 and from 1 to 2, and at 2 it is rejected with
   false: four of them end at activeIndex = 2. *)
C19_ScenarioAAsSpecified ==
    [][/\ (initialize /\ Len(views) > 0) => activeIndex' = 0
       /\ (ScenarioAReady /\ processIntention("navigate", "down")) => ScenarioADown]_vars

(* C19 amended: the same, for down intentions fired after endTransition and a
   cooldown reset. *)
C19_ScenarioAWithEndTransition ==
    [][/\ (initialize /\ Len(views) > 0) => activeIndex' = 0
       /\ (ScenarioAReady /\ ~isTransitioning /\ processIntention("navigate", "down"))
            => ScenarioADown]_vars

\* the scenario's last intention was just rejected at the third view, which
\* was reached by navigating down
C19_Witness ==
    /\ handled = "false"
    /\ ScenarioAReady
    /\ ~isTransitioning
    /\ activeIndex = 2
    /\ lastNavigationDirection = "down"
    /\ views[3].isActive

(* C20: with infinite scroll enabled and N >= 2 unlocked views, an accepted
   down intention moves activeIndex to (activeIndex + 1) mod N, so that it
   wraps from N - 1 to 0 and N of them return to the start; an accepted up
   intention moves it to (activeIndex - 1) mod N; goToNext and goToPrevious
   outside the cooldown move the same way. *)
C20_InfiniteScrollWraps ==
    [][(infiniteScrollEnabled /\ totalViews >= 2 /\ ~InCooldown(now, lastNavigationTime))
        => /\ (IntentionFree /\ processIntention("navigate", "down"))
                => /\ handled' = "true"
                   /\ activeIndex' = (activeIndex + 1) % totalViews
           /\ (IntentionFree /\ processIntention("navigate", "up"))
                => /\ handled' = "true"
                   /\ activeIndex' = (activeIndex + totalViews - 1) % totalViews
           /\ goToNext => activeIndex' = (activeIndex + 1) % totalViews
           /\ goToPrevious
                => activeIndex' = (activeIndex + totalViews - 1) % totalViews]_vars

\* a down intention just wrapped from the last of three views to the first
C20_Witness ==
    /\ handled = "true"
    /\ infiniteScrollEnabled
    /\ isTransitioning
    /\ totalViews = 3
    /\ activeIndex = 0
    /\ lastNavigationDirection = "up"
    /\ lastAccepted = now
    /\ views[1].isActive
    /\ views[3].isPreloaded

(* C21: registerView with an id that is already registered changes nothing
   (views, totalViews, activeId, the existing view's config and state);
   otherwise it appends one view with index = the previous views.length,
   navigation unlocked, capability none, progress 0 and explicitLock null,
   keeps the views already registered, and sets activeId to the new id only
   if activeId was null. *)
C21_RegisterViewIdempotent ==
    [][\A config \in EvalConfigs :
        registerView(config) =>
            IF findIndex(views, config.id) # -1
            THEN UNCHANGED storeVars
            ELSE /\ Len(views') = Len(views) + 1
                 /\ totalViews' = Len(views) + 1
                 /\ SubSeq(views', 1, Len(views)) = views
                 /\ views'[Len(views) + 1].id = config.id
                 /\ views'[Len(views) + 1].config = config
                 /\ views'[Len(views) + 1].index = Len(views)
                 /\ views'[Len(views) + 1].navigation = "unlocked"
                 /\ views'[Len(views) + 1].capability = "none"
                 /\ views'[Len(views) + 1].progress = Rat(0, 1)
                 /\ views'[Len(views) + 1].explicitLock = NULL
                 /\ activeId' = (IF activeId = NULL THEN config.id ELSE activeId)]_vars

\* the view "v" was appended as the second view while activeId was already
\* set, and the first view has since reported metrics and been locked
C21_Witness ==
    /\ Len(views) = 2
    /\ views[2].id = "v"
    /\ views[2].index = 1
    /\ views[2].type = "nested"
    /\ activeId = "b"
    /\ views[1].capability = "internal"
    /\ views[1].explicitLock = "locked"

\* the ids of a registry, in order
idsOf(vs) == [i \in 1..Len(vs) |-> vs[i].id]

\* s is t with some elements left out, the others in the order they have in t
RECURSIVE IsSubsequence(_, _)
IsSubsequence(s, t) ==
    IF s = <<>> THEN TRUE
    ELSE IF t = <<>> THEN FALSE
    ELSE IF Head(s) = Head(t) THEN IsSubsequence(Tail(s), Tail(t))
    ELSE IsSubsequence(s, Tail(t))

(* C22: after any sequence of registerView and unregisterView (and
   navigations), views[i].index = i at every position, the view ids are
   pairwise distinct and totalViews = views.length; a registration adds the
   new id at the end and an unregistration removes that id and leaves the
   other views in the order they had. *)
C22_DenseIndicesInRegistrationOrder ==
    /\ [](/\ \A i \in 1..Len(views) : views[i].index = i - 1
          /\ \A i, j \in 1..Len(views) : views[i].id = views[j].id => i = j
          /\ totalViews = Len(views))
    /\ [][/\ \A id \in FlowViewIds :
                unregisterView(id)
                => /\ IsSubsequence(idsOf(views'), idsOf(views))
                   /\ findIndex(views', id) = -1
                   /\ Len(views') = Len(views) - (IF findIndex(views, id) = -1 THEN 0 ELSE 1)
           /\ \A config \in FlowConfigs :
                (findIndex(views, config.id) = -1 /\ registerView(config))
                => idsOf(views') = Append(idsOf(views), config.id)]_vars

\* the second of three views was unregistered before any navigation: the
\* view registered third (not preloaded then) now has index 1
C22_Witness ==
    /\ Len(views) = 2
    /\ views[2].index = 1
    /\ ~views[2].isPreloaded
    /\ lastNavigationDirection = NULL
    /\ activeIndex = 0

\* updateViewMetrics(id, metrics) would return a new state object
metricsCallSetsState(id, metrics) ==
    /\ findIndex(views, id) # -1
    /\ ~metricsAlreadyStored(views[findIndex(views, id) + 1], metrics)

(* C23: updateViewMetrics is idempotent: right after a call, the same call
   for the same view with the same metrics takes the early return and changes
   no state; updateViewMetrics for an id that is not registered leaves the
   state unchanged. *)
C23_UpdateViewMetricsIdempotent ==
    [][\A id \in EvalViewIds, metrics \in EvalMetricsSet :
        updateViewMetrics(id, metrics)
        => /\ ~(metricsCallSetsState(id, metrics))'
           /\ findIndex(views, id) = -1 => UNCHANGED storeVars]_vars

\* a full view holds a report of progress 0.99 and would take the early return
\* for the report of progress 0.98995 too, and a scroll-locked view holds a
\* report below its end
C23_Witness ==
    /\ Len(views) = 2
    /\ \E i \in 1..2 :
        /\ views[i].type = "full"
        /\ views[i].metrics = Met(20800, 800, 19800)
        /\ ~metricsCallSetsState(views[i].id, Met(20800, 800, 19799))
    /\ \E i \in 1..2 :
        /\ views[i].type = "scroll-locked"
        /\ views[i].metrics = Met(2000, 800, 100)
        /\ views[i].navigation = "locked"

\* p <= 1 and p >= 0 for a fraction with a positive denominator
InUnitInterval(p) == p.num >= 0 /\ p.num <= p.den

(* C24: in every reachable state with totalViews > 0, globalProgress equals
   (activeIndex + views[activeIndex].progress) / totalViews and lies in
   [0, 1], also right after a navigation, a registration or an
   unregistration. *)
C24_GlobalProgressFormula ==
    (totalViews > 0 /\ HasView(views, activeIndex)) =>
        LET expected == computeGlobalProgress(views, activeIndex, totalViews)
        IN  /\ globalProgress.num * expected.den = expected.num * globalProgress.den
            /\ InUnitInterval(globalProgress)

(* C26 as stated: from setDragging(true) until setDragging(false)
   processIntention refuses navigate intentions: it returns false and leaves
   activeIndex unchanged, as it does under the global lock. *)
C26_DraggingRejectsIntentions ==
    [][(isDragging /\ \E direction \in {"up", "down"} : processIntention("navigate", direction))
        => (handled' = "false" /\ activeIndex' = activeIndex)]_vars

(* C26 amended: setDragging only sets isDragging, and processIntention does
   not read the flag: while isDragging is true a down intention with nothing
   else in its way returns true and advances, and the drag handler's own
   intention at touchend is processed before the flag is cleared; the global
   lock flag does gate processIntention. *)
C26_DraggingDoesNotGateIntentions ==
    [][/\ \A dragging \in BOOLEAN :
            setDragging(dragging) => (isDragging' = dragging /\ UNCHANGED storeVars)
       /\ (isDragging => FreeDownAdvances)
       /\ (/\ isDragging /\ touchStartRef /\ dragEnabled /\ IntentionFree
           /\ activeIndex < totalViews - 1
           /\ handleTouchEnd("down", TRUE, TRUE))
          => (handled' = "true" /\ activeIndex' = activeIndex + 1 /\ ~isDragging')
       /\ (isGlobalLocked /\ \E direction \in {"up", "down"} :
                                processIntention("navigate", direction))
          => (handled' = "false" /\ UNCHANGED storeVars)]_vars

\* an intention was just accepted while isDragging was set, outside a touch
\* gesture of the drag handler
C26_Witness ==
    /\ handled = "true"
    /\ isDragging
    /\ ~touchStartRef
    /\ isTransitioning
    /\ activeIndex = 1
    /\ lastAccepted = now

(* C27: isDragging is true only while a touch gesture is in flight: after
   every gesture started by the drag handler isDragging eventually returns to
   false, whether the gesture ends by touchend or touchcancel or the handler
   is disabled or unmounted during the gesture. *)
C27_DraggingEventuallyCleared == (touchStartRef /\ isDragging) ~> ~isDragging

(* C25: view transition callbacks fire at the documented edges: when a view
   first renders as active in a transition that has started, its effects call
   onEnterStart, and those of the view that stopped being active call
   onExitStart; when the view renders the end of the transition, the active
   view's effects call onEnterEnd and the other (previously active) view's
   call onExitEnd; onActivate and onDeactivate are called at each activation
   and deactivation edge. *)
C25_CallbacksAtTransitionEdges ==
    [][\A id \in LockViewIds :
        viewEffects(id) =>
            LET startEdge == isTransitioning /\ ~viewDeps[id][2]
                endEdge == ~isTransitioning /\ viewDeps[id][2]
                activated == isActiveOf(id) /\ ~viewDeps[id][1]
                deactivated == ~isActiveOf(id) /\ viewDeps[id][1]
            IN  /\ (startEdge /\ activated) => "onEnterStart" \in fired'[id]
                /\ (startEdge /\ deactivated) => "onExitStart" \in fired'[id]
                /\ (endEdge /\ isActiveOf(id)) => "onEnterEnd" \in fired'[id]
                /\ (endEdge /\ ~isActiveOf(id) /\ findIndex(views, id) # -1)
                      => "onExitEnd" \in fired'[id]
                /\ activated => "onActivate" \in fired'[id]
                /\ deactivated => "onDeactivate" \in fired'[id]]_vars

(* C28: with auto-scroll enabled and pauseOnInteraction, an interaction (a
   drag, or a transition, that of auto-scroll's own advance included) pauses
   auto-scroll, and after the interaction ends auto-scroll eventually resumes:
   isAutoScrollPaused returns to false. *)
C28_AutoScrollResumes == (autoMounted /\ isAutoScrollPaused) ~> ~isAutoScrollPaused

(* C29: initialize() called with zero registered views leaves the state
   unchanged (an isInitialized that is false stays false); called with at
   least one view it
   sets isInitialized = true, activeIndex = 0 and activeId = views[0].id, and
   nothing else. *)
C29_InitializeNeedsViews ==
    [][initialize =>
        IF Len(views) = 0
        THEN UNCHANGED storeVars /\ (~isInitialized => ~isInitialized')
        ELSE /\ isInitialized'
             /\ activeIndex' = 0
             /\ activeId' = views[1].id
             /\ UNCHANGED <<views, totalViews, isTransitioning, isGlobalLocked,
                            globalProgress, infiniteScrollEnabled,
                            lastNavigationDirection>>]_vars

\* initialize was called after a navigation to the last of three views: the
\* index and the id are back at the first view, the views are as goToView
\* left them
C29_Witness ==
    /\ isInitialized
    /\ totalViews = 3
    /\ activeIndex = 0
    /\ activeId = views[1].id
    /\ lastNavigationDirection = "down"
    /\ views[3].isActive

(* C30: an up intention is rejected (returns false, activeIndex unchanged)
   whenever the active view has capability internal and its scrollTop is
   above 1, for every view type and also with infinite scroll enabled; with
   capability none or scrollTop <= 1 it is not rejected for this reason: with
   nothing else in its way it returns true. *)
C30_UpHeldUntilTop ==
    [][/\ (/\ HasView(views, activeIndex)
           /\ ScrolledAway
           /\ processIntention("navigate", "up"))
          => (handled' = "false" /\ activeIndex' = activeIndex)
       /\ (/\ IntentionFree
           /\ ~ScrolledAway
           /\ ~(ActiveView.type = "controlled" /\ ActiveView.config.allowGoBack = FALSE)
           /\ ~(ActiveView.type # "controlled" /\ ActiveView.explicitLock = "locked")
           /\ (activeIndex > 0 \/ infiniteScrollEnabled)
           /\ processIntention("navigate", "up"))
          => handled' = "true"]_vars

\* an intention was just refused on a full view, the last of two, that is two
\* pixels below its top, with infinite scroll on and nothing else in the way:
\* a down intention would have wrapped, so it was an up intention
C30_Witness ==
    /\ handled = "false"
    /\ IntentionFree
    /\ infiniteScrollEnabled
    /\ totalViews = 2
    /\ activeIndex = 1
    /\ ActiveView.type = "full"
    /\ ActiveView.navigation = "unlocked"
    /\ ActiveView.metrics.scrollTop = 2
    /\ ScrolledAway

(* C39: in every reachable state activeId = views[activeIndex].id when views
   is non-empty and activeId = null when views is empty, after any sequence
   of register, unregister, initialize and navigation operations. *)
C39_ActiveIdFollowsActiveIndex ==
    IF Len(views) = 0
    THEN activeId = NULL
    ELSE HasView(views, activeIndex) /\ activeId = views[activeIndex + 1].id

\* the active third view was unregistered: activeIndex was clamped to 1 and
\* activeId names the view now at that position, which goToView never activated
C39_Witness ==
    /\ totalViews = 2
    /\ activeIndex = 1
    /\ activeId = views[2].id
    /\ lastNavigationDirection = "down"
    /\ ~views[2].isActive
    /\ isInitialized

(* C40: unregisterView(id) of a view other than the active one keeps the same
   view active: activeId is unchanged and activeIndex is that view's new
   position. *)
C40_UnregisterKeepsActiveView ==
    [][\A id \in FlowViewIds :
        (/\ Len(views) > 0
         /\ activeId # NULL
         /\ id # activeId
         /\ unregisterView(id))
        => (activeId' = activeId /\ findIndex(views', activeId) = activeIndex')]_vars

(* C32: after registerView, goToView, initialize and unregisterView, a view's
   isPreloaded flag is true exactly when its index is within the preload
   window of activeIndex: the active index, its immediate neighbours and,
   with infinite scroll, the last view for index 0 and the first view for the
   last index. *)
C32_PreloadedIffInWindow ==
    [][(views' # views \/ activeIndex' # activeIndex)
        => \A i \in 1..Len(views') :
              views'[i].isPreloaded
                  = InPreloadWindow(i - 1, activeIndex', Len(views'), infiniteScrollEnabled')]_vars

(* C33: when processIntention(navigate, direction) changes the active view,
   lastNavigationDirection becomes that direction, also when the navigation
   wraps around under infinite scroll. *)
C33_DirectionOfLastNavigation ==
    [][\A direction \in {"up", "down"} :
        (activeIndex' # activeIndex /\ processIntention("navigate", direction))
        => lastNavigationDirection' = direction]_vars

(* C37: with at least two views registered, a goToView call that is not in
   cooldown and does not navigate (target equal to the active index, or out of
   range) leaves lastNavigationTime as it was, so it starts no cooldown. *)
C37_RejectedGoToViewStartsNoCooldown ==
    [][\A index \in 0 .. 1 :
        (/\ Len(views) > 1
         /\ ~InCooldown(now, lastNavigationTime)
         /\ ~targetValid(resolveTarget(index))
         /\ goToView(index))
        => lastNavigationTime' = lastNavigationTime]_vars

(* C36: after updateViewMetrics(id, m) on a registered view the stored metrics
   of that view equal m, so the at-top test of an up intention
   (metrics.scrollTop <= 1) reflects the most recently reported scrollTop. *)
C36_ReportedMetricsAreStored ==
    [][\A id \in EvalViewIds, m \in TopMetricsSet :
        (findIndex(views, id) # -1 /\ updateViewMetrics(id, m))
        => LET stored == views'[findIndex(views, id) + 1].metrics
           IN  /\ stored = m
               /\ (stored.scrollTop <= 1) = (m.scrollTop <= 1)]_vars

(* C34: with at least two views and the cooldown elapsed,
   selectCanNavigateNext is true exactly when processIntention(navigate, down)
   changes activeIndex, and selectCanNavigatePrevious is true exactly when
   processIntention(navigate, up) changes activeIndex. *)
C34_SelectorsAgreeWithIntentions ==
    [][(Len(views) > 1 /\ ~InCooldown(now, lastNavigationTime))
        => /\ processIntention("navigate", "down")
                => (selectCanNavigateNext = (activeIndex' # activeIndex))
           /\ processIntention("navigate", "up")
                => (selectCanNavigatePrevious = (activeIndex' # activeIndex))]_vars

(* C38: calling initialize() again, once the system is initialized and a
   navigation has moved the active view, leaves activeIndex, activeId and the
   views' isActive flags unchanged. *)
C38_InitializeAgainKeepsActiveView ==
    [][(isInitialized /\ Len(views) > 0 /\ initialize)
        => /\ UNCHANGED <<activeIndex, activeId>>
           /\ \A i \in 1..Len(views) : views'[i].isActive = views[i].isActive]_vars

(* C31: for every wheel event, (d) nothing is sent to the store while
   isTransitioning or isDragging, and the refs are left alone; otherwise, when
   the active view has internal scroll and its scrollable element is not at
   the boundary in the direction of the event, the accumulator is reset to 0
   and nothing is sent; otherwise (a) the accumulator adds the event's delta
   unless more than 200 ms passed since the previous accumulated event, in
   which case it restarts from that delta, (b) an intention is sent exactly
   when |accumulator| >= 60, with the direction given by the sign, and (c) the
   accumulator is reset to 0 exactly when processIntention returned true. *)
C31_WheelProtocol ==
    [][\A event \in WheelEvents, found \in BOOLEAN, element \in DomMetricsSet :
        handleWheel(event, found, element)
        => LET delta == normalizeWheel(event)
               expected == IF now - lastScrollTime > 200
                           THEN delta ELSE scrollAccumulator + delta
               sent == handled' # "none"
           IN  IF isTransitioning \/ isDragging
               THEN ~sent /\ UNCHANGED wheelVars
               ELSE IF allowsNativeScroll(delta, found, element)
               THEN ~sent /\ scrollAccumulator' = 0
               ELSE /\ sent = (Abs(expected) >= 60)
                    /\ activeIndex' > activeIndex => expected > 0
                    /\ activeIndex' < activeIndex => expected < 0
                    /\ scrollAccumulator' = IF handled' = "true" THEN 0 ELSE expected]_vars

(* C31 as stated: outside a transition or a drag, every wheel event is
   accumulated (restarting after more than 200 ms), an intention is sent
   exactly when |accumulator| >= 60, and the accumulator is reset to 0 only
   when processIntention returned true. *)
C31_WheelProtocolAsStated ==
    [][\A event \in WheelEvents, found \in BOOLEAN, element \in DomMetricsSet :
        handleWheel(event, found, element)
        => LET delta == normalizeWheel(event)
               expected == IF now - lastScrollTime > 200
                           THEN delta ELSE scrollAccumulator + delta
               sent == handled' # "none"
           IN  IF isTransitioning \/ isDragging
               THEN ~sent
               ELSE /\ sent = (Abs(expected) >= 60)
                    /\ scrollAccumulator' = IF handled' = "true" THEN 0 ELSE expected]_vars

\* a wheel event at the end of the scroll-locked view's content was answered
\* with a navigation to the next view, and the accumulator was reset
C31_Witness ==
    /\ handled = "true"
    /\ scrollAccumulator = 0
    /\ lastScrollTime = now
    /\ activeIndex = 1
    /\ isTransitioning
    /\ views[1].type = "scroll-locked"
    /\ views[1].capability = "internal"

(* C35: a global lock requested by the application stays in effect until the
   application unlocks it: isGlobalLocked is true whenever the application's
   lock is requested, whatever touch gestures happen on a NestedScrollView;
   and isGlobalLocked is false once no lock is requested, no touch is in
   progress on the NestedScrollView and no unlock timeout is pending. *)
C35_ApplicationLockHolds ==
    /\ lockRequested => isGlobalLocked
    /\ (~lockRequested /\ ~nestedTouching /\ unlockTimers = 0) => ~isGlobalLocked

====
